---- MODULE Spec2Model ----
(***************************************************************************)
(* Model of the admission-controlled write proxy (src/e.ts, class          *)
(* RealtimeDB), of its batch fallback, and of the transaction wrapper      *)
(* (src/RealtimeDB/RealtimeDB.ts, RealtimeTransaction.ts) driven by the    *)
(* status-update scenario of src/main.ts.                                  *)
(*                                                                         *)
(* Every await of the source is a suspension point: a write call is a      *)
(* small process whose position is kept in calls[c].pc, and the rate       *)
(* limiter, the deferred store, the engine, the recovery predicates and    *)
(* the dead-letter sink answer in separate steps with every outcome their  *)
(* interface allows (a promise resolves or rejects).                       *)
(***************************************************************************)
EXTENDS Integers, Sequences, FiniteSets, TLC

-----------------------------------------------------------------------------
(* Bounds of the model *)

\* total number of add/set/update/delete calls issued in one behaviour
MaxCalls == 2
\* number of recovery predicates that may be registered
MaxHandlers == 3

-----------------------------------------------------------------------------
(* Values *)

\* undefined / absent
NoValue == "undefined"

\* two independent callers sharing one proxy instance
Callers == {1, 2}
\* tenant each caller operates as
Own == [c \in Callers |-> IF c = 1 THEN "acme" ELSE "globex"]
Tenants == {Own[c] : c \in Callers}

Ops == {"add", "set", "update", "delete"}
DocPath == "users/1"
CollPath == "users"
Merge == "merge"

\* errors by origin
EngineError == "EngineError"
SinkError == "SinkError"
StoreError == "StoreError"
GateError == "GateError"
ConfigError == "Rate limit exceeded but no deferred storage configured"

\* the arguments of one call: add(collectionPath, data), set(documentPath,
\* data, options?), update(documentPath, data), delete(documentPath); the
\* payloads differ between the methods
CallArgs ==
  { [op |-> "add", path |-> CollPath, data |-> "d1", options |-> NoValue],
    [op |-> "set", path |-> DocPath, data |-> "d1", options |-> NoValue],
    [op |-> "set", path |-> DocPath, data |-> "d2", options |-> Merge],
    [op |-> "update", path |-> DocPath, data |-> "d2", options |-> NoValue],
    [op |-> "delete", path |-> DocPath, data |-> NoValue, options |-> NoValue] }

\* dead-letter sinks, numbered in the order in which they are registered
Sinks == {1, 2}
NoSink == 0

\* readings of the clock (Date.now, Timestamp.now)
Times == {0, 1}

-----------------------------------------------------------------------------
VARIABLES
  currentCustomerId,  \* RealtimeDB.currentCustomerId
  rateLimiter,        \* TRUE iff a rate limiter was given to the constructor
  deferredStorage,    \* TRUE iff a deferred store was given to the constructor
  errorHandlers,      \* RealtimeDB.errorHandlers: registered predicates, in order
  dlqHandler,         \* RealtimeDB.dlqHandler: NoSink or the registered sink
  store,              \* contents of the deferred store, in append order
  now,                \* Date.now()
  lastSetter,         \* the caller whose setCustomerId ran last (0: nobody's)
  nextRnd,            \* source of the random id suffix (fresh per record)
  issued,             \* number of calls issued so far
  calls,              \* per caller: the call in flight and what it has done
  batch,              \* the batch obtained from batch(), if any
  driver,             \* which program runs the status-update scenario
  docStatus,          \* committed `status` field of users/user1
  txs,                \* per transaction of the scenario: its position
  txUnit,             \* the RealtimeTransaction of the current attempt
  wrapper,            \* the call in flight on a document / collection wrapper
  instance,           \* the static field RealtimeDB.instance
  getCalls,           \* the getInstance calls made: arguments and returned object
  wallet              \* the wallet sub-document and the calls updating it

vars == <<currentCustomerId, rateLimiter, deferredStorage, errorHandlers,
          dlqHandler, store, now, lastSetter, nextRnd, issued, calls,
          batch, driver, docStatus, txs, txUnit, wrapper, instance, getCalls,
          wallet>>

txVars == <<driver, docStatus, txs>>

\* the state outside the proxy, its batch and the status-update scenario
libVars == <<txUnit, wrapper, instance, getCalls, wallet>>



-----------------------------------------------------------------------------
(* Data-only shapes *)

\* DeferredWrite.id: `${prefix}-${Date.now()}-${random}`; the random suffix is
\* taken to be fresh.  `error-${Date.now()}` has no suffix (r = 0).
MakeId(prefix, t, r) == [prefix |-> prefix, t |-> t, r |-> r]

\* interface DeferredWrite
DeferredWrite(id, operation, path, data, options, timestamp, customerId) ==
  [id |-> id, operation |-> operation, path |-> path, data |-> data,
   options |-> options, timestamp |-> timestamp, customerId |-> customerId]

\* a value handed back to the caller: `origin` tells the object the engine
\* returned from one the proxy made up; docId is <<>> or <<id>> for the
\* document id `pending-${id}`
NoResult ==
  [origin |-> NoValue, type |-> NoValue, path |-> NoValue, docId |-> <<>>,
   writeTime |-> 0]

\* what the engine resolves a write with: add -> DocumentReference with a
\* generated id, set/update/delete -> WriteResult
NativeResult(op, path, t) ==
  IF op = "add"
    THEN [NoResult EXCEPT !.origin = "engine", !.type = "DocumentReference",
                          !.path = path]
    ELSE [NoResult EXCEPT !.origin = "engine", !.type = "WriteResult",
                          !.writeTime = t]

IdleCall ==
  [pc |-> "idle",
   \* arguments
   op |-> NoValue, path |-> NoValue, data |-> NoValue, options |-> NoValue,
   \* locals of the method and of handleError
   customerId |-> NoValue, shouldLimit |-> NoValue, error |-> NoValue,
   errOp |-> <<>>, hIdx |-> 0, recoverable |-> FALSE,
   \* what the call has asked of its collaborators, in order
   gateAsked |-> <<>>, storeCalls |-> <<>>, engineCalls |-> <<>>,
   invoked |-> <<>>, thrown |-> <<>>, dlqCalls |-> <<>>,
   \* what the collaborators answered
   engineResult |-> NoResult, recoverableAt |-> 0,
   \* how the call settled
   outcome |-> "pending", result |-> NoResult, raised |-> NoValue,
   \* the proxy's state when the call was issued / when the engine failed
   issuedTenant |-> NoValue, setterAtIssue |-> 0,
   handlersAtFail |-> 0, dlqAtFail |-> NoSink]

\* no batch() call yet
NoBatch ==
  [pc |-> "none", native |-> FALSE, customerId |-> NoValue, operations |-> <<>>,
   gateAsked |-> <<>>, shouldLimit |-> NoValue, k |-> 0, storeCalls |-> <<>>,
   committed |-> <<>>, outcome |-> "pending", raised |-> NoValue]

\* the status-update scenario: `Array.from({ length: 10 }, (_, i) => i + 1)`
NumTx == 10
Txs == 1..NumTx
\* users/user1 is created with status 0
SeedStatus == 0
UserPath == "users/user1"

NoRef == [wrapped |-> FALSE, path |-> NoValue]
IdleTx == [pc |-> "idle", handle |-> NoValue, ref |-> NoRef]

\* a RealtimeTransaction: `effects` are the calls it has made on its
\* collaborators, `asked` the get / update / delete calls made on it
IdleUnit ==
  [pc |-> "idle", attempt |-> 0, effects |-> <<>>, asked |-> <<>>,
   fnOutcome |-> NoValue, outcome |-> "pending", result |-> NoValue,
   raised |-> NoValue]

\* a call on a RealtimeDocumentReference / RealtimeCollectionReference:
\* `effects` are the console lines written and the calls made on the wrapped
\* primitive, in order; `console` is everything written so far
IdleWrapper ==
  [pc |-> "idle", kind |-> NoValue, path |-> NoValue, method |-> NoValue,
   args |-> <<>>, effects |-> <<>>, primitive |-> <<>>, result |-> <<>>,
   served |-> 0, console |-> <<>>]

\* one updateVaultWalletBalance call
IdleWalletCall == [pc |-> "idle", exists |-> NoValue, write |-> NoValue,
                   raised |-> NoValue]
\* the callers updating the same (tenant, account, asset) and the balance
\* each of them reports; `staked` is optional
WalletCallers == {1, 2, 3}
BalanceOf ==
  [c \in WalletCallers |->
     [total |-> c, staked |-> IF c = 1 THEN "s1" ELSE NoValue]]

\* `private static instance: RealtimeDB;` before it is assigned
NoInstance ==
  [n |-> 0, firestore |-> NoValue, rateLimiter |-> FALSE,
   deferredStorage |-> FALSE]

\* before any getInstance call the static field is undefined; nothing runs
\* on the wrappers, the unit or the wallet
InitLib ==
  /\ txUnit = IdleUnit
  /\ wrapper = IdleWrapper
  /\ instance = NoInstance
  /\ getCalls = <<>>
  /\ wallet = [sub |-> <<>>, account |-> <<>>,
               calls |-> [c \in WalletCallers |-> IdleWalletCall]]

-----------------------------------------------------------------------------
(* Pieces of the write methods *)

\* `const customerId = this.currentCustomerId;` first statement of each method
CapturedCustomerId(current) == current

\* shouldRateLimit: the tenant argument of isRateLimited, evaluated in the
\* synchronous part of the call
GateTenantDefault(current) == "default"
GateTenant(current) == current

\* shouldRateLimit(points = 1): the write methods pass no argument
GatePoints == 1

\* the queries a call makes to the gate: none without a rate limiter
GateQueriesTwice(hasLimiter, current) ==
  IF hasLimiter
    THEN <<[tenant |-> GateTenant(current), points |-> GatePoints],
           [tenant |-> GateTenant(current), points |-> GatePoints]>>
    ELSE <<>>
GateQueries(hasLimiter, current) ==
  IF hasLimiter
    THEN <<[tenant |-> GateTenant(current), points |-> GatePoints]>>
    ELSE <<>>

\* customerId field of the records a method builds: the captured constant
RecordCustomerIdCurrent(captured, current) == current
RecordCustomerId(captured, current) == captured

\* the deferredOp literal of add / set / update / delete: add and update
\* write no options field, delete writes neither data nor options
DeferredOpDropsPayload(call, t, r, current) ==
  DeferredWrite(MakeId(call.op, t, r), call.op, call.path, NoValue,
                IF call.op = "set" THEN call.options ELSE NoValue,
                t, RecordCustomerId(call.customerId, current))
DeferredOpDropsOptions(call, t, r, current) ==
  DeferredWrite(MakeId(call.op, t, r), call.op, call.path,
                IF call.op = "delete" THEN NoValue ELSE call.data,
                NoValue, t, RecordCustomerId(call.customerId, current))
DeferredOp(call, t, r, current) ==
  DeferredWrite(MakeId(call.op, t, r), call.op, call.path,
                IF call.op = "delete" THEN NoValue ELSE call.data,
                IF call.op = "set" THEN call.options ELSE NoValue,
                t, RecordCustomerId(call.customerId, current))

\* the record literal given to handleError in the catch block
ErrorOp(call, t, current) ==
  DeferredWrite(MakeId("error", t, 0), call.op, call.path,
                IF call.op = "delete" THEN NoValue ELSE call.data,
                IF call.op = "set" THEN call.options ELSE NoValue,
                t, RecordCustomerId(call.customerId, current))

\* the answers shouldRateLimit can give: `if (!this.rateLimiter) return false;`
\* else whatever rateLimiter.isRateLimited resolves to
ShouldRateLimitAny(hasLimiter) == BOOLEAN
ShouldRateLimit(hasLimiter) == IF hasLimiter THEN BOOLEAN ELSE {FALSE}

\* the engine call of the try block: collectionRef.add(data),
\* docRef.set(data, options), docRef.update(data), docRef.delete().
\* The `if (shouldLimit) { ... return ...; }` block returns before it.
EngineCallsFallThrough(shouldLimit, call) ==
  <<[method |-> call.op, path |-> call.path, data |-> call.data,
     options |-> call.options]>>
EngineCalls(shouldLimit, call) ==
  IF shouldLimit THEN <<>>
  ELSE <<[method |-> call.op, path |-> call.path, data |-> call.data,
          options |-> call.options]>>

\* the placeholder returned after deferWrite: add ->
\* collection(collectionPath).doc(`pending-${deferredOp.id}`), others ->
\* { writeTime: Timestamp.now() }
PlaceholderOwnId(call, rec, t) ==
  IF call.op = "add"
    THEN [NoResult EXCEPT !.origin = "proxy", !.type = "DocumentReference",
                          !.path = call.path, !.docId = <<MakeId("add", t, 0)>>]
    ELSE [NoResult EXCEPT !.origin = "proxy", !.type = "WriteResult",
                          !.writeTime = t]
Placeholder(call, rec, t) ==
  IF call.op = "add"
    THEN [NoResult EXCEPT !.origin = "proxy", !.type = "DocumentReference",
                          !.path = call.path, !.docId = <<rec.id>>]
    ELSE [NoResult EXCEPT !.origin = "proxy", !.type = "WriteResult",
                          !.writeTime = t]

\* `const result = await ...; return result;`
DirectReturnPlaceholder(call, engineResult, t) ==
  [engineResult EXCEPT !.origin = "proxy"]
DirectReturn(call, engineResult, t) == engineResult

\* deferWrite: `if (!this.deferredStorage) throw new Error(...)`
DeferWriteNeverThrows(hasStore) == FALSE
DeferWriteThrows(hasStore) == ~hasStore

\* deferredStorage.store(operation): what a successful append adds
StoreAppendTwice(contents, rec) == Append(Append(contents, rec), rec)
StoreAppend(contents, rec) == Append(contents, rec)


-----------------------------------------------------------------------------
(* The recovery chain: handleError(error, operation) *)

\* `this.dlqHandler` is read when the loop is over: the sink invoked is the
\* one registered then, not the one registered when the engine failed
SinkAtFailure(current, atFail) == atFail
SinkToInvoke(current, atFail) == current

\* after the for loop: `if (!recoverable && this.dlqHandler)` invokes the
\* sink, otherwise handleError returns and the catch block rethrows
AfterChainRetries(call, sink) ==
  IF call.recoverable
    THEN [call EXCEPT !.pc = "engine", !.engineCalls = Append(@, @[1])]
    ELSE IF sink # NoSink
           THEN [call EXCEPT !.pc = "dlq",
                             !.dlqCalls = Append(@, [sink |-> sink, error |-> call.error,
                                                     operation |-> call.errOp[1]])]
           ELSE [call EXCEPT !.pc = "done", !.outcome = "raised", !.raised = call.error]
AfterChainSkipsSink(call, sink) ==
  [call EXCEPT !.pc = "done", !.outcome = "raised", !.raised = call.error]
AfterChain(call, sink) ==
  IF ~call.recoverable /\ sink # NoSink
    THEN [call EXCEPT !.pc = "dlq",
                      !.dlqCalls = Append(@, [sink |-> SinkToInvoke(sink, call.dlqAtFail),
                                              error |-> call.error,
                                              operation |-> call.errOp[1]])]
    ELSE [call EXCEPT !.pc = "done", !.outcome = "raised", !.raised = call.error]

\* the for-of loop reaching position k of the (live) handler array: invoke
\* handler k, or leave the loop when the array is exhausted
ChainAt(call, k, handlers, sink) ==
  IF k <= Len(handlers)
    THEN [call EXCEPT !.pc = "handler", !.hIdx = k,
                      !.invoked = Append(@, handlers[k])]
    ELSE AfterChain(call, sink)

\* `if (recoverable) break;`
BreaksNever(recoverable) == FALSE
BreaksOn(recoverable) == recoverable

\* a handler settles: "true" / "false" resolve the awaited promise,
\* "throw" rejects it and the catch clause only logs
HandlerOutcomes == {"true", "false", "throw"}
AfterHandlerThrowLeaves(call, out, handlers, sink) ==
  LET r == (out = "true")
      c1 == [call EXCEPT !.recoverable = r,
                         !.recoverableAt =
                            IF out = "true" /\ @ = 0 THEN call.hIdx ELSE @]
  IN IF out = "throw"
       THEN [call EXCEPT !.pc = "done", !.outcome = "raised", !.raised = call.error]
       ELSE IF BreaksOn(r)
              THEN AfterChain(c1, sink)
              ELSE ChainAt(c1, call.hIdx + 1, handlers, sink)
AfterHandler(call, out, handlers, sink) ==
  LET r == IF out = "throw" THEN call.recoverable ELSE (out = "true")
      c1 == [call EXCEPT !.recoverable = r,
                         !.recoverableAt =
                            IF out = "true" /\ @ = 0 THEN call.hIdx ELSE @]
  IN IF out # "throw" /\ BreaksOn(r)
       THEN AfterChain(c1, sink)
       ELSE ChainAt(c1, call.hIdx + 1, handlers, sink)

\* what the catch block of a write method throws once handleError returned
Rethrown(call) == call.error

-----------------------------------------------------------------------------
(* The proxy: construction and calls *)

Init ==
  /\ currentCustomerId = "default"
  /\ rateLimiter \in BOOLEAN
  /\ deferredStorage \in BOOLEAN
  /\ errorHandlers = <<>>
  /\ dlqHandler = NoSink
  /\ store = <<>>
  /\ now = 0
  /\ lastSetter = 0
  /\ nextRnd = 1
  /\ issued = 0
  /\ calls = [c \in Callers |-> IdleCall]
  /\ batch = NoBatch
  /\ driver = NoValue
  /\ docStatus = SeedStatus
  /\ txs = [i \in Txs |-> IdleTx]
  /\ InitLib

Config == <<rateLimiter, deferredStorage>>

\* setCustomerId(customerId): a caller sets its own tenant before each write
SetCustomerId(c) ==
  /\ calls[c].pc = "idle"
  /\ currentCustomerId' = Own[c]
  /\ lastSetter' = c
  /\ calls' = [calls EXCEPT ![c].pc = "ready"]
  /\ UNCHANGED <<libVars, batch, txVars, Config, errorHandlers, dlqHandler, store, now, nextRnd, issued>>

\* registerErrorHandler(handler): handlers are numbered in registration order
RegisterErrorHandler ==
  /\ Len(errorHandlers) < MaxHandlers
  /\ errorHandlers' = Append(errorHandlers, Len(errorHandlers) + 1)
  /\ UNCHANGED <<libVars, batch, txVars, currentCustomerId, Config, dlqHandler, store, now, lastSetter, nextRnd,
                 issued, calls>>

\* registerDLQHandler(handler)
RegisterDLQHandler(s) ==
  /\ s = dlqHandler + 1
  /\ dlqHandler' = s
  /\ UNCHANGED <<libVars, batch, txVars, currentCustomerId, Config, errorHandlers, store, now, lastSetter, nextRnd,
                 issued, calls>>

\* add / set / update / delete up to the first await: the tenant is captured
\* and shouldRateLimit() is entered, which queries the gate when there is one
Issue(c, a) ==
  /\ calls[c].pc = "ready"
  /\ issued < MaxCalls
  /\ issued' = issued + 1
  /\ calls' = [calls EXCEPT ![c] =
       [IdleCall EXCEPT !.pc = "gate",
                        !.op = a.op, !.path = a.path, !.data = a.data,
                        !.options = a.options,
                        !.issuedTenant = currentCustomerId,
                        !.setterAtIssue = lastSetter,
                        !.customerId = CapturedCustomerId(currentCustomerId),
                        !.gateAsked = GateQueries(rateLimiter, currentCustomerId)]]
  /\ UNCHANGED <<libVars, batch, txVars, currentCustomerId, Config, errorHandlers, dlqHandler, store,
                 now, lastSetter, nextRnd>>

\* `const shouldLimit = await this.shouldRateLimit();` resumes.  Rate limited:
\* the record is built and deferWrite is entered (it throws without a store,
\* else calls store.store).  Admitted: the engine call of the try block is made.
GateAnswer(c, limited) ==
  LET call == calls[c]
      rec == DeferredOp(call, now, nextRnd, currentCustomerId)
      c1 == [call EXCEPT !.shouldLimit = IF limited THEN "true" ELSE "false",
                         !.engineCalls = EngineCalls(limited, call)]
  IN /\ call.pc = "gate"
     /\ limited \in ShouldRateLimit(rateLimiter)
     /\ IF limited
          THEN /\ nextRnd' = nextRnd + 1
               /\ calls' = [calls EXCEPT ![c] =
                    IF DeferWriteThrows(deferredStorage)
                      THEN [c1 EXCEPT !.pc = "done", !.outcome = "raised",
                                      !.raised = ConfigError]
                      ELSE [c1 EXCEPT !.pc = "store", !.storeCalls = <<rec>>]]
          ELSE /\ nextRnd' = nextRnd
               /\ calls' = [calls EXCEPT ![c] = [c1 EXCEPT !.pc = "engine"]]
     /\ UNCHANGED <<libVars, batch, txVars, currentCustomerId, Config, errorHandlers, dlqHandler, store,
                    now, lastSetter, issued>>

\* rateLimiter.isRateLimited rejects: the await is outside any try block
GateFail(c) ==
  /\ calls[c].pc = "gate"
  /\ rateLimiter
  /\ calls' = [calls EXCEPT ![c].pc = "done", ![c].outcome = "raised",
                            ![c].raised = GateError]
  /\ UNCHANGED <<libVars, batch, txVars, currentCustomerId, Config, errorHandlers, dlqHandler, store,
                 now, lastSetter, nextRnd, issued>>

\* deferredStorage.store(operation) resolves; the method returns its placeholder
StoreOk(c) ==
  LET call == calls[c]
      rec == call.storeCalls[1]
  IN /\ call.pc = "store"
     /\ store' = StoreAppend(store, rec)
     /\ calls' = [calls EXCEPT ![c] =
          [call EXCEPT !.pc = "done", !.outcome = "returned",
                       !.result = Placeholder(call, rec, now)]]
     /\ UNCHANGED <<libVars, batch, txVars, currentCustomerId, Config, errorHandlers, dlqHandler, now, lastSetter,
                    nextRnd, issued>>

StoreFailEntersChain(c) ==
  LET call == calls[c]
      c1 == [call EXCEPT !.error = StoreError,
                         !.errOp = <<ErrorOp(call, now, currentCustomerId)>>,
                         !.handlersAtFail = Len(errorHandlers),
                         !.dlqAtFail = dlqHandler]
  IN /\ call.pc = "store"
     /\ calls' = [calls EXCEPT ![c] = ChainAt(c1, 1, errorHandlers, dlqHandler)]
     /\ UNCHANGED <<libVars, batch, txVars, currentCustomerId, Config, errorHandlers, dlqHandler, store,
                    now, lastSetter, nextRnd, issued>>

\* deferredStorage.store(operation) rejects; deferWrite and the method reject
StoreFail(c) ==
  /\ calls[c].pc = "store"
  /\ calls' = [calls EXCEPT ![c].pc = "done", ![c].outcome = "raised",
                            ![c].raised = StoreError]
  /\ UNCHANGED <<libVars, batch, txVars, currentCustomerId, Config, errorHandlers, dlqHandler, store,
                 now, lastSetter, nextRnd, issued>>

\* the engine resolves the write
EngineOk(c) ==
  LET call == calls[c]
  IN /\ call.pc = "engine"
     /\ calls' = [calls EXCEPT ![c] =
          [call EXCEPT !.pc = "done", !.outcome = "returned",
                       !.engineResult = NativeResult(call.op, call.path, now),
                       !.result = DirectReturn(call,
                                    NativeResult(call.op, call.path, now), now)]]
     /\ UNCHANGED <<libVars, batch, txVars, currentCustomerId, Config, errorHandlers, dlqHandler, store,
                    now, lastSetter, nextRnd, issued>>

\* the engine rejects the write: the catch block builds the error record and
\* enters handleError, which starts its loop
EngineFail(c) ==
  LET call == calls[c]
      c1 == [call EXCEPT !.error = EngineError,
                         !.errOp = <<ErrorOp(call, now, currentCustomerId)>>,
                         !.handlersAtFail = Len(errorHandlers),
                         !.dlqAtFail = dlqHandler]
  IN /\ call.pc = "engine"
     /\ calls' = [calls EXCEPT ![c] = ChainAt(c1, 1, errorHandlers, dlqHandler)]
     /\ UNCHANGED <<libVars, batch, txVars, currentCustomerId, Config, errorHandlers, dlqHandler, store,
                    now, lastSetter, nextRnd, issued>>

\* `recoverable = await handler(error, operation)` settles
HandlerReturn(c, out) ==
  /\ calls[c].pc = "handler"
  /\ calls' = [calls EXCEPT ![c] =
                 [AfterHandler(calls[c], out, errorHandlers, dlqHandler)
                    EXCEPT !.thrown = IF out = "throw"
                                        THEN Append(@, calls[c].hIdx) ELSE @]]
  /\ UNCHANGED <<libVars, batch, txVars, currentCustomerId, Config, errorHandlers, dlqHandler, store,
                 now, lastSetter, nextRnd, issued>>

\* `await this.dlqHandler(error, operation)` resolves: handleError returns and
\* the catch block executes `throw error`
SinkOk(c) ==
  /\ calls[c].pc = "dlq"
  /\ calls' = [calls EXCEPT ![c].pc = "done", ![c].outcome = "raised",
                            ![c].raised = Rethrown(calls[c])]
  /\ UNCHANGED <<libVars, batch, txVars, currentCustomerId, Config, errorHandlers, dlqHandler, store,
                 now, lastSetter, nextRnd, issued>>

\* `await this.dlqHandler(error, operation)` rejects: nothing in handleError
\* catches it, so `await this.handleError(...)` throws inside the catch block
SinkFail(c) ==
  /\ calls[c].pc = "dlq"
  /\ calls' = [calls EXCEPT ![c].pc = "done", ![c].outcome = "raised",
                            ![c].raised = SinkError]
  /\ UNCHANGED <<libVars, batch, txVars, currentCustomerId, Config, errorHandlers, dlqHandler, store,
                 now, lastSetter, nextRnd, issued>>

\* the caller has its answer and may go on
Complete(c) ==
  /\ calls[c].pc = "done"
  /\ calls' = [calls EXCEPT ![c] = IdleCall]
  /\ UNCHANGED <<libVars, batch, txVars, currentCustomerId, Config, errorHandlers, dlqHandler, store,
                 now, lastSetter, nextRnd, issued>>

\* time passes
Tick ==
  /\ now + 1 \in Times
  /\ now' = now + 1
  /\ UNCHANGED <<libVars, batch, txVars, currentCustomerId, Config, errorHandlers, dlqHandler, store,
                 lastSetter, nextRnd, issued, calls>>

\* Writes by two callers with no recovery handler registered
Next ==
  \/ \E c \in Callers : SetCustomerId(c)
  \/ \E c \in Callers, a \in CallArgs : Issue(c, a)
  \/ \E c \in Callers, limited \in BOOLEAN : GateAnswer(c, limited)
  \/ \E c \in Callers : GateFail(c)
  \/ \E c \in Callers : StoreOk(c)
  \/ \E c \in Callers : StoreFail(c)
  \/ \E c \in Callers : EngineOk(c)
  \/ \E c \in Callers : EngineFail(c)
  \/ \E c \in Callers : Complete(c)
  \/ Tick

Spec == Init /\ [][Next]_vars

\* Direct writes of caller 1 with recovery predicates and dead-letter sinks
\* registered at any moment, caller 2 changing the tenant meanwhile; the gate
\* admits every write
InitChain == Init /\ deferredStorage

NextChain ==
  \/ \E c \in Callers : SetCustomerId(c)
  \/ RegisterErrorHandler
  \/ \E s \in Sinks : RegisterDLQHandler(s)
  \/ \E a \in CallArgs : Issue(1, a)
  \/ \E c \in Callers : GateAnswer(c, FALSE)
  \/ \E c \in Callers : EngineOk(c)
  \/ \E c \in Callers : EngineFail(c)
  \/ \E c \in Callers, out \in HandlerOutcomes : HandlerReturn(c, out)
  \/ \E c \in Callers : SinkOk(c)
  \/ \E c \in Callers : SinkFail(c)
  \/ \E c \in Callers : Complete(c)

SpecChain == InitChain /\ [][NextChain]_vars

\* Writes of caller 1 against a proxy that has a rate limiter, with or without
\* a deferred store, recovery predicates and dead-letter sinks being registered
\* at any moment
InitGated == Init /\ rateLimiter

NextGated ==
  \/ SetCustomerId(1)
  \/ RegisterErrorHandler
  \/ \E s \in Sinks : RegisterDLQHandler(s)
  \/ \E a \in CallArgs : Issue(1, a)
  \/ \E limited \in BOOLEAN : GateAnswer(1, limited)
  \/ GateFail(1)
  \/ StoreOk(1)
  \/ StoreFail(1)
  \/ EngineOk(1)
  \/ EngineFail(1)
  \/ \E out \in HandlerOutcomes : HandlerReturn(1, out)
  \/ SinkOk(1)
  \/ SinkFail(1)
  \/ Complete(1)

SpecGated == InitGated /\ [][NextGated]_vars


-----------------------------------------------------------------------------
(* Reads: get(documentPath) and query(collectionPath, queryFn) *)

ReadKinds == {"get", "query"}

\* get reads the document at documentPath, query the collection at
\* collectionPath through the query the caller's queryFn builds
ReadArgs ==
  { [op |-> "get", path |-> DocPath, data |-> NoValue, options |-> NoValue],
    [op |-> "query", path |-> CollPath, data |-> "queryFn", options |-> NoValue] }

\* neither method calls shouldRateLimit
ReadGateQueriesAsWrite(hasLimiter, current) == GateQueries(hasLimiter, current)
ReadGateQueries(hasLimiter, current) == <<>>

\* what the engine resolves a read with
ReadResult(op, path, t) ==
  [NoResult EXCEPT !.origin = "engine",
                   !.type = IF op = "get" THEN "DocumentSnapshot"
                                          ELSE "QuerySnapshot",
                   !.path = path]

\* get / query up to their await: the reference is made and the engine's get
\* is called
Read(c, a) ==
  /\ calls[c].pc \in {"idle", "ready"}
  /\ issued < MaxCalls
  /\ issued' = issued + 1
  /\ calls' = [calls EXCEPT ![c] =
       [IdleCall EXCEPT !.pc = "read",
                        !.op = a.op, !.path = a.path, !.data = a.data,
                        !.issuedTenant = currentCustomerId,
                        !.setterAtIssue = lastSetter,
                        !.gateAsked = ReadGateQueries(rateLimiter, currentCustomerId),
                        !.engineCalls = <<[method |-> a.op, path |-> a.path,
                                           data |-> a.data, options |-> NoValue]>>]]
  /\ UNCHANGED <<libVars, batch, txVars, currentCustomerId, Config, errorHandlers, dlqHandler, store,
                 now, lastSetter, nextRnd>>

\* `return await docRef.get()` / `return await query.get()` resolves
ReadOk(c) ==
  LET call == calls[c]
  IN /\ call.pc = "read"
     /\ calls' = [calls EXCEPT ![c] =
          [call EXCEPT !.pc = "done", !.outcome = "returned",
                       !.engineResult = ReadResult(call.op, call.path, now),
                       !.result = ReadResult(call.op, call.path, now)]]
     /\ UNCHANGED <<libVars, batch, txVars, currentCustomerId, Config, errorHandlers, dlqHandler, store,
                    now, lastSetter, nextRnd, issued>>

\* the engine rejects the read: there is no try block, the method rejects
ReadFail(c) ==
  /\ calls[c].pc = "read"
  /\ calls' = [calls EXCEPT ![c].pc = "done", ![c].outcome = "raised",
                            ![c].raised = EngineError]
  /\ UNCHANGED <<libVars, batch, txVars, currentCustomerId, Config, errorHandlers, dlqHandler, store,
                 now, lastSetter, nextRnd, issued>>

\* Reads and writes by two callers
NextRead ==
  \/ \E c \in Callers : SetCustomerId(c)
  \/ \E c \in Callers, a \in CallArgs : Issue(c, a)
  \/ \E c \in Callers, a \in ReadArgs : Read(c, a)
  \/ \E c \in Callers, limited \in BOOLEAN : GateAnswer(c, limited)
  \/ \E c \in Callers : StoreOk(c)
  \/ \E c \in Callers : EngineOk(c)
  \/ \E c \in Callers : ReadOk(c)
  \/ \E c \in Callers : ReadFail(c)
  \/ \E c \in Callers : Complete(c)

SpecRead == Init /\ [][NextRead]_vars

-----------------------------------------------------------------------------
(* batch(): the native batch, or a Batch Unit with the proxy's cost function
   and fallback *)

\* bound on the intents accumulated by one batch
MaxIntents == 3

\* intents a caller may put into a batch
BatchIntents ==
  { [type |-> "set", docPath |-> DocPath, data |-> "d1", options |-> Merge],
    [type |-> "update", docPath |-> DocPath, data |-> "d2", options |-> NoValue],
    [type |-> "delete", docPath |-> "users/2", data |-> NoValue, options |-> NoValue] }

\* `if (!this.rateLimiter || !this.deferredStorage) return this.firestore.batch();`
NativeBatchWithoutBoth(hasLimiter, hasStore) == ~hasLimiter /\ ~hasStore
NativeBatch(hasLimiter, hasStore) == ~hasLimiter \/ ~hasStore

\* second constructor argument of RateLimitedBatch: this.currentCustomerId
BatchCustomerId(current) == current

\* the cost function `(customerId, operationCount) =>
\* this.shouldRateLimit(operationCount)`: its customerId parameter is unused,
\* shouldRateLimit reads this.currentCustomerId when it is called
CostQueryOfOne(batchCustomerId, operationCount, current) ==
  [tenant |-> GateTenant(current), points |-> GatePoints]
CostQuery(batchCustomerId, operationCount, current) ==
  [tenant |-> GateTenant(current), points |-> operationCount]

\* the deferredOp literal of the fallback, for one operation of the batch
BatchDeferredOp(op, batchCustomerId, t, r) ==
  DeferredWrite(MakeId("batch-op", t, r), op.type, op.docPath, op.data,
                op.options, t, batchCustomerId)

\* `for (const op of batch.operations)`: is there an operation after the k-th
DrainStopsAfterFirst(k, operations) == FALSE
DrainContinues(k, operations) == k < Len(operations)

\* the fallback reaching operation k: it builds the record and enters
\* deferWrite, or returns when the operations are exhausted
FallbackAt(b, k, t, r) ==
  IF k <= Len(b.operations)
    THEN [b EXCEPT !.pc = "drain", !.k = k,
                   !.storeCalls = Append(@, BatchDeferredOp(b.operations[k],
                                                            b.customerId, t, r))]
    ELSE [b EXCEPT !.pc = "done", !.outcome = "returned"]

\* batch()
CreateBatch ==
  /\ batch.pc = "none"
  /\ batch' = [NoBatch EXCEPT !.pc = "open",
                              !.native = NativeBatch(rateLimiter, deferredStorage),
                              !.customerId =
                                 IF NativeBatch(rateLimiter, deferredStorage)
                                   THEN NoValue
                                   ELSE BatchCustomerId(currentCustomerId)]
  /\ UNCHANGED <<libVars, txVars, currentCustomerId, Config, errorHandlers, dlqHandler,
                 store, now, lastSetter, nextRnd, issued, calls>>

\* set / update / delete on the batch: the intent is only recorded
BatchAdd(intent) ==
  /\ batch.pc = "open"
  /\ Len(batch.operations) < MaxIntents
  /\ batch' = [batch EXCEPT !.operations = Append(@, intent)]
  /\ UNCHANGED <<libVars, txVars, currentCustomerId, Config, errorHandlers, dlqHandler,
                 store, now, lastSetter, nextRnd, issued, calls>>

\* commit(): the native batch goes to the engine; the Batch Unit asks its
\* cost function with the number of accumulated intents
BatchCommit ==
  /\ batch.pc = "open"
  /\ batch' =
       IF batch.native
         THEN [batch EXCEPT !.pc = "commit", !.committed = batch.operations]
         ELSE [batch EXCEPT !.pc = "gate",
                 !.gateAsked = <<CostQuery(batch.customerId, Len(batch.operations),
                                           currentCustomerId)>>]
  /\ UNCHANGED <<libVars, txVars, currentCustomerId, Config, errorHandlers, dlqHandler,
                 store, now, lastSetter, nextRnd, issued, calls>>

\* the cost function answers: admitted, the whole list goes to the engine's
\* batch commit; rejected, the fallback is called with the batch
BatchGateAnswer(limited) ==
  /\ batch.pc = "gate"
  /\ LET b == [batch EXCEPT !.shouldLimit = IF limited THEN "true" ELSE "false"]
     IN IF limited
          THEN /\ batch' = FallbackAt(b, 1, now, nextRnd)
               /\ nextRnd' = IF b.operations = <<>> THEN nextRnd ELSE nextRnd + 1
          ELSE /\ batch' = [b EXCEPT !.pc = "commit", !.committed = b.operations]
               /\ nextRnd' = nextRnd
  /\ UNCHANGED <<libVars, txVars, currentCustomerId, Config, errorHandlers, dlqHandler,
                 store, now, lastSetter, issued, calls>>

\* the cost function rejects (isRateLimited failed)
BatchGateFail ==
  /\ batch.pc = "gate"
  /\ batch' = [batch EXCEPT !.pc = "done", !.outcome = "raised", !.raised = GateError]
  /\ UNCHANGED <<libVars, txVars, currentCustomerId, Config, errorHandlers, dlqHandler,
                 store, now, lastSetter, nextRnd, issued, calls>>

\* `await this.deferWrite(deferredOp)` resolves inside the fallback's loop
BatchStoreOk ==
  /\ batch.pc = "drain"
  /\ store' = StoreAppend(store, batch.storeCalls[Len(batch.storeCalls)])
  /\ IF DrainContinues(batch.k, batch.operations)
       THEN /\ batch' = FallbackAt(batch, batch.k + 1, now, nextRnd)
            /\ nextRnd' = nextRnd + 1
       ELSE /\ batch' = [batch EXCEPT !.pc = "done", !.outcome = "returned"]
            /\ nextRnd' = nextRnd
  /\ UNCHANGED <<libVars, txVars, currentCustomerId, Config, errorHandlers, dlqHandler,
                 now, lastSetter, issued, calls>>

BatchStoreFailContinues ==
  /\ batch.pc = "drain"
  /\ IF DrainContinues(batch.k, batch.operations)
       THEN /\ batch' = FallbackAt(batch, batch.k + 1, now, nextRnd)
            /\ nextRnd' = nextRnd + 1
       ELSE /\ batch' = [batch EXCEPT !.pc = "done", !.outcome = "returned"]
            /\ nextRnd' = nextRnd
  /\ UNCHANGED <<libVars, txVars, currentCustomerId, Config, errorHandlers, dlqHandler,
                 store, now, lastSetter, issued, calls>>

\* `await this.deferWrite(deferredOp)` rejects: the loop is left by the throw
BatchStoreFail ==
  /\ batch.pc = "drain"
  /\ batch' = [batch EXCEPT !.pc = "done", !.outcome = "raised", !.raised = StoreError]
  /\ UNCHANGED <<libVars, txVars, currentCustomerId, Config, errorHandlers, dlqHandler,
                 store, now, lastSetter, nextRnd, issued, calls>>

\* the engine's batch commit resolves or rejects
BatchEngineOk ==
  /\ batch.pc = "commit"
  /\ batch' = [batch EXCEPT !.pc = "done", !.outcome = "returned"]
  /\ UNCHANGED <<libVars, txVars, currentCustomerId, Config, errorHandlers, dlqHandler,
                 store, now, lastSetter, nextRnd, issued, calls>>

BatchEngineFail ==
  /\ batch.pc = "commit"
  /\ batch' = [batch EXCEPT !.pc = "done", !.outcome = "raised", !.raised = EngineError]
  /\ UNCHANGED <<libVars, txVars, currentCustomerId, Config, errorHandlers, dlqHandler,
                 store, now, lastSetter, nextRnd, issued, calls>>

\* One batch, with the tenant changing and time passing meanwhile
NextBatch ==
  \/ \E c \in Callers : SetCustomerId(c)
  \/ CreateBatch
  \/ \E intent \in BatchIntents : BatchAdd(intent)
  \/ BatchCommit
  \/ \E limited \in BOOLEAN : BatchGateAnswer(limited)
  \/ BatchGateFail
  \/ BatchStoreOk
  \/ BatchStoreFail
  \/ BatchEngineOk
  \/ BatchEngineFail
  \/ Tick

SpecBatch == Init /\ [][NextBatch]_vars

\* the lists of intents a batch may have accumulated
IntentLists ==
  UNION {[1..n -> BatchIntents] : n \in 0..MaxIntents}

\* Everything that appends to the store: a write of caller 1 and the
\* commit of a batch obtained and filled beforehand, on a proxy with a rate
\* limiter and a store, the gate rejecting every request (an admitted write or
\* batch appends nothing)
InitStore ==
  /\ currentCustomerId = "default"
  /\ rateLimiter = TRUE
  /\ deferredStorage = TRUE
  /\ errorHandlers = <<>>
  /\ dlqHandler = NoSink
  /\ store = <<>>
  /\ now = 0
  /\ lastSetter = 0
  /\ nextRnd = 1
  /\ issued = 0
  /\ calls = [c \in Callers |-> IdleCall]
  /\ \E ops \in IntentLists :
        batch = [NoBatch EXCEPT !.pc = "open",
                                !.native = NativeBatch(rateLimiter, deferredStorage),
                                !.customerId = BatchCustomerId(currentCustomerId),
                                !.operations = ops]
  /\ driver = NoValue
  /\ docStatus = SeedStatus
  /\ txs = [i \in Txs |-> IdleTx]
  /\ InitLib

NextStore ==
  \/ SetCustomerId(1)
  \/ \E a \in CallArgs : Issue(1, a)
  \/ GateAnswer(1, TRUE)
  \/ StoreOk(1)
  \/ StoreFail(1)
  \/ BatchCommit
  \/ BatchGateAnswer(TRUE)
  \/ BatchStoreOk
  \/ BatchStoreFail

SpecStore == InitStore /\ [][NextStore]_vars

-----------------------------------------------------------------------------
(* Transactions: RealtimeDB.runTransaction and the status-update scenario.

   The engine is taken at its contract: transactions are serializable and an
   attempt that conflicts is retried, so the attempt that commits reads and
   writes the document at one instant and aborted attempts leave no trace. *)

\* RealtimeCollectionReference.doc(path): a wrapped reference
WrappedRef(path) == [wrapped |-> TRUE, path |-> path]
\* CollectionReference.doc(path) of the engine
EngineRef(path) == [wrapped |-> FALSE, path |-> path]
\* RealtimeDocumentReference.ref
Unwrap(ref) == [ref EXCEPT !.wrapped = FALSE]

\* RealtimeTransaction.execute(): the argument given to updateFn
ExecuteArg(unit, transaction) == transaction

\* the object the caller's function receives: runTransaction hands
\* `new RealtimeTransaction(t, updateFunction).execute()` to the engine;
\* FirestoreDB.updateStatus gives its function to the engine directly
CallbackHandle(d) ==
  IF d = "RealtimeDB" THEN ExecuteArg("unit", "engine") ELSE "engine"

\* the reference the caller's function reads: main.ts takes it from
\* realtimeDb.collection("users").doc("user1"), db.ts from this.collection.doc(id)
CallbackRef(d) ==
  IF d = "RealtimeDB" THEN WrappedRef(UserPath) ELSE EngineRef(UserPath)

\* transaction.get(docRef) as the handle performs it: RealtimeTransaction.get
\* passes docRef.ref to the engine transaction, the engine transaction takes
\* its argument as it is
GetArg(handle, ref) == IF handle = "unit" THEN Unwrap(ref) ELSE ref

\* the engine's Transaction.get reads engine references only; any other
\* object is rejected with an argument error
EngineReads(ref) == ~ref.wrapped

\* `if (data && data.status < i) transaction.update(docRef, { status: i })`
\* (main.ts), `if (data.status < status) t.update(...)` (db.ts)
StatusAfter(seen, i) == IF seen < i THEN i ELSE seen

\* runTransaction(updateFunction): the engine begins an attempt and calls the
\* function it was given
TxStart(i) ==
  /\ txs[i].pc = "idle"
  /\ txs' = [txs EXCEPT ![i] = [IdleTx EXCEPT !.pc = "called",
                                              !.handle = CallbackHandle(driver),
                                              !.ref = CallbackRef(driver)]]
  /\ UNCHANGED <<libVars, batch, driver, docStatus, currentCustomerId, Config,
                 errorHandlers, dlqHandler, store, now, lastSetter, nextRnd,
                 issued, calls>>

\* `await transaction.get(docRef)` throws: the function rejects with an error
\* that is no conflict, the engine rolls back and runTransaction rejects
TxGetThrows(i) ==
  /\ txs[i].pc = "called"
  /\ ~EngineReads(GetArg(txs[i].handle, txs[i].ref))
  /\ txs' = [txs EXCEPT ![i].pc = "failed"]
  /\ UNCHANGED <<libVars, batch, driver, docStatus, currentCustomerId, Config,
                 errorHandlers, dlqHandler, store, now, lastSetter, nextRnd,
                 issued, calls>>

\* the attempt that commits: read, compare, update if lower
TxCommit(i) ==
  /\ txs[i].pc = "called"
  /\ EngineReads(GetArg(txs[i].handle, txs[i].ref))
  /\ docStatus' = StatusAfter(docStatus, i)
  /\ txs' = [txs EXCEPT ![i].pc = "done"]
  /\ UNCHANGED <<libVars, batch, driver, currentCustomerId, Config, errorHandlers,
                 dlqHandler, store, now, lastSetter, nextRnd, issued, calls>>

\* The scenario run by main.ts through RealtimeDB.runTransaction, or by the
\* earlier entry point through FirestoreDB.updateStatus
InitTx ==
  /\ currentCustomerId = "default"
  /\ rateLimiter = FALSE
  /\ deferredStorage = FALSE
  /\ errorHandlers = <<>>
  /\ dlqHandler = NoSink
  /\ store = <<>>
  /\ now = 0
  /\ lastSetter = 0
  /\ nextRnd = 1
  /\ issued = 0
  /\ calls = [c \in Callers |-> IdleCall]
  /\ batch = NoBatch
  /\ driver \in {"RealtimeDB", "FirestoreDB"}
  /\ docStatus = SeedStatus
  /\ txs = [i \in Txs |-> IdleTx]
  /\ InitLib

NextTx ==
  \/ \E i \in Txs : TxStart(i)
  \/ \E i \in Txs : TxGetThrows(i)
  \/ \E i \in Txs : TxCommit(i)

SpecTx == InitTx /\ [][NextTx]_vars

-----------------------------------------------------------------------------
(* The Transactional Unit: RealtimeTransaction, one per attempt *)

\* the proxy, its store and its batch
proxyVars == <<currentCustomerId, rateLimiter, deferredStorage, errorHandlers,
               dlqHandler, store, now, lastSetter, nextRnd, issued, calls, batch>>

\* attempts the engine makes for one runTransaction call
MaxAttempts == 2
\* get / update / delete calls made on the unit during one attempt
MaxUnitCalls == 2

\* get(docRef), update(docRef, data), delete(docRef) on wrapped references
UnitRefs == {WrappedRef(UserPath), WrappedRef(DocPath)}
UnitCalls ==
  {[method |-> "get", ref |-> r, data |-> NoValue] : r \in UnitRefs}
    \cup {[method |-> "update", ref |-> r, data |-> d] :
            r \in UnitRefs, d \in {"d1", "d2"}}
    \cup {[method |-> "delete", ref |-> r, data |-> NoValue] : r \in UnitRefs}

\* how the promise of the caller's function settles
FnOutcomes ==
  {[kind |-> "resolve", value |-> v] : v \in {"r1", "r2"}}
    \cup {[kind |-> "reject", value |-> "fnError"]}

\* execute(): `return this.updateFn(this.transaction);` calls the function
Execute(u) ==
  [u EXCEPT !.pc = "running",
            !.effects = Append(@, [kind |-> "updateFn",
                                   arg |-> ExecuteArg("unit", "engine")])]

\* get / update / delete: `return this.transaction.get(docRef.ref)`,
\* `.update(docRef.ref, data)`, `.delete(docRef.ref)`
UnitDelegate(call) ==
  [kind |-> "transaction", method |-> call.method, ref |-> Unwrap(call.ref),
   data |-> call.data]

\* the promise execute() returned is the promise of the function itself
ExecuteSettlesRetries(u, out) ==
  IF out.kind = "reject"
    THEN [u EXCEPT !.effects = Append(@, [kind |-> "updateFn",
                                          arg |-> ExecuteArg("unit", "engine")])]
    ELSE [u EXCEPT !.pc = "settled", !.outcome = "returned", !.result = out.value]
ExecuteSettles(u, out) ==
  IF out.kind = "resolve"
    THEN [u EXCEPT !.pc = "settled", !.outcome = "returned", !.result = out.value]
    ELSE [u EXCEPT !.pc = "settled", !.outcome = "raised", !.raised = out.value]

\* the engine starts an attempt and calls the function runTransaction gave
\* it: `(t) => new RealtimeTransaction(t, updateFunction).execute()`; a new
\* attempt follows one whose function resolved and whose commit conflicted
UnitStart ==
  /\ \/ txUnit.pc = "idle"
     \/ txUnit.pc = "settled" /\ txUnit.outcome = "returned"
  /\ txUnit.attempt < MaxAttempts
  /\ txUnit' = Execute([IdleUnit EXCEPT !.attempt = txUnit.attempt + 1])
  /\ UNCHANGED <<proxyVars, txVars, wrapper, instance, getCalls, wallet>>

\* a holder of the unit calls get / update / delete on it
UnitAsk(call) ==
  /\ txUnit.pc = "running"
  /\ Len(txUnit.asked) < MaxUnitCalls
  /\ txUnit' = [txUnit EXCEPT !.asked = Append(@, call),
                              !.effects = Append(@, UnitDelegate(call))]
  /\ UNCHANGED <<proxyVars, txVars, wrapper, instance, getCalls, wallet>>

\* the caller's function settles
UnitFnSettles(out) ==
  /\ txUnit.pc = "running"
  /\ txUnit' = ExecuteSettles([txUnit EXCEPT !.fnOutcome = out], out)
  /\ UNCHANGED <<proxyVars, txVars, wrapper, instance, getCalls, wallet>>

NextUnit ==
  \/ UnitStart
  \/ \E call \in UnitCalls : UnitAsk(call)
  \/ \E out \in FnOutcomes : UnitFnSettles(out)

SpecUnit == Init /\ [][NextUnit]_vars

-----------------------------------------------------------------------------
(* The wrappers: RealtimeDocumentReference and RealtimeCollectionReference *)

\* calls made on the wrappers in one behaviour
MaxWrapperCalls == 2

\* the wrapped primitives
DocPrimitive(path) == [type |-> "DocumentReference", path |-> path]
CollPrimitive(path) == [type |-> "CollectionReference", path |-> path]
\* what the caller's queryFn makes of the collection: the collection itself
\* or a query built on it
QueryFns == {"identity", "where"}
QueryBuilt(fn, path) ==
  IF fn = "identity" THEN CollPrimitive(path)
  ELSE [type |-> "Query", path |-> path, filter |-> fn]

WrapperCallOf(kind, path, method, args) ==
  [kind |-> kind, path |-> path, method |-> method, args |-> args]

\* the I/O calls: on a document get(), create(data), set(data),
\* set(data, options), update(data), delete(); on a collection get(),
\* add(data), query(queryFn)
IOCalls ==
  UNION {{WrapperCallOf("document", p, "get", <<>>),
          WrapperCallOf("document", p, "create", <<"d1">>),
          WrapperCallOf("document", p, "set", <<"d1">>),
          WrapperCallOf("document", p, "set", <<"d2", Merge>>),
          WrapperCallOf("document", p, "update", <<"d2">>),
          WrapperCallOf("document", p, "delete", <<>>)} : p \in {DocPath, UserPath}}
    \cup {WrapperCallOf("collection", CollPath, "get", <<>>),
          WrapperCallOf("collection", CollPath, "add", <<"d1">>)}
    \cup {WrapperCallOf("collection", CollPath, "query", <<fn>>) : fn \in QueryFns}

\* navigation: collection(collectionPath) on a document, doc(documentPath)
\* and doc() on a collection
NavigationCalls ==
  {WrapperCallOf("document", p, "collection", <<"wallets">>) : p \in {DocPath, UserPath}}
    \cup {WrapperCallOf("collection", CollPath, "doc", <<"user1">>),
          WrapperCallOf("collection", CollPath, "doc", <<>>)}

\* how the promise of the primitive settles
PrimitiveOutcomes ==
  {[kind |-> "resolve", value |-> v] : v \in {"p1", "p2"}}
    \cup {[kind |-> "reject", value |-> EngineError]}

\* console.log(`[RealtimeDB] ${verb}: ${path}`)
TraceLine(verb, path) == [subsystem |-> "RealtimeDB", verb |-> verb, path |-> path]
LogEffect(line) == [kind |-> "log", line |-> line]
CallEffect(target, method, args) ==
  [kind |-> "call", target |-> target, method |-> method, args |-> args]

DocumentVerb ==
  [get |-> "Reading document", create |-> "Creating document",
   set |-> "Setting document", update |-> "Updating document",
   delete |-> "Deleting document"]
CollectionVerb ==
  [get |-> "Reading collection", add |-> "Adding document to collection",
   query |-> "Querying collection"]

\* set: `if (options) return this.docRef.set(data, options);
\*       return this.docRef.set(data);`
SetArgs(args) ==
  IF Len(args) = 2 /\ args[2] # NoValue THEN args ELSE <<args[1]>>

\* get / create / set / update / delete of a document wrapper
DocumentEffectsCallFirst(path, method, args) ==
  <<CallEffect(DocPrimitive(path), method,
               IF method = "set" THEN SetArgs(args) ELSE args),
    LogEffect(TraceLine(DocumentVerb[method], path))>>
DocumentEffects(path, method, args) ==
  <<LogEffect(TraceLine(DocumentVerb[method], path)),
    CallEffect(DocPrimitive(path), method,
               IF method = "set" THEN SetArgs(args) ELSE args)>>

\* get / add / query of a collection wrapper; query:
\* `const query = queryFn(this.collectionRef); return query.get();`
CollectionEffects(path, method, args) ==
  IF method = "query"
    THEN <<LogEffect(TraceLine(CollectionVerb[method], path)),
           [kind |-> "queryFn", fn |-> args[1], arg |-> CollPrimitive(path)],
           CallEffect(QueryBuilt(args[1], path), "get", <<>>)>>
    ELSE <<LogEffect(TraceLine(CollectionVerb[method], path)),
           CallEffect(CollPrimitive(path), method, args)>>

\* every I/O method returns the promise of the primitive
WrapperReturn(out) == out

\* collection(collectionPath): `new RealtimeCollectionReference(
\* this.docRef.collection(collectionPath))`
DocumentCollection(path, args) ==
  [effects |-> <<CallEffect(DocPrimitive(path), "collection", args)>>,
   result |-> [wrapped |-> TRUE, type |-> "RealtimeCollectionReference",
               ref |-> CollPrimitive(<<path, args[1]>>)]]

\* doc(documentPath?): the primitive's doc(documentPath), or doc() with an
\* identifier the engine generates
CollectionDoc(path, args) ==
  [effects |-> <<CallEffect(CollPrimitive(path), "doc", args)>>,
   result |-> [wrapped |-> TRUE, type |-> "RealtimeDocumentReference",
               ref |-> DocPrimitive(<<path, IF args = <<>> THEN "auto-id"
                                                          ELSE args[1]>>)]]

\* the console lines among effects
Lines(effects) ==
  LET logs == SelectSeq(effects, LAMBDA x : x.kind = "log")
  IN [i \in DOMAIN logs |-> logs[i].line]

\* an I/O method runs up to its return statement
WrapperCall(call) ==
  LET effects == IF call.kind = "document"
                   THEN DocumentEffects(call.path, call.method, call.args)
                   ELSE CollectionEffects(call.path, call.method, call.args)
  IN /\ wrapper.pc = "idle"
     /\ wrapper.served < MaxWrapperCalls
     /\ wrapper' = [wrapper EXCEPT !.pc = "pending", !.kind = call.kind,
                       !.path = call.path, !.method = call.method,
                       !.args = call.args, !.effects = effects,
                       !.console = @ \o Lines(effects)]
     /\ UNCHANGED <<proxyVars, txVars, txUnit, instance, getCalls, wallet>>

\* the promise of the primitive settles, and with it the promise returned
PrimitiveSettles(out) ==
  /\ wrapper.pc = "pending"
  /\ wrapper' = [wrapper EXCEPT !.pc = "done", !.primitive = <<out>>,
                                !.result = <<WrapperReturn(out)>>,
                                !.served = @ + 1]
  /\ UNCHANGED <<proxyVars, txVars, txUnit, instance, getCalls, wallet>>

\* doc() / collection(): synchronous
WrapperNavigate(call) ==
  LET nav == IF call.kind = "document"
               THEN DocumentCollection(call.path, call.args)
               ELSE CollectionDoc(call.path, call.args)
  IN /\ wrapper.pc = "idle"
     /\ wrapper.served < MaxWrapperCalls
     /\ wrapper' = [wrapper EXCEPT !.pc = "done", !.kind = call.kind,
                       !.path = call.path, !.method = call.method,
                       !.args = call.args, !.effects = nav.effects,
                       !.console = @ \o Lines(nav.effects),
                       !.result = <<nav.result>>, !.served = @ + 1]
     /\ UNCHANGED <<proxyVars, txVars, txUnit, instance, getCalls, wallet>>

\* the caller goes on to its next call
WrapperNext ==
  /\ wrapper.pc = "done"
  /\ wrapper' = [IdleWrapper EXCEPT !.served = wrapper.served,
                                    !.console = wrapper.console]
  /\ UNCHANGED <<proxyVars, txVars, txUnit, instance, getCalls, wallet>>

NextWrapper ==
  \/ \E call \in IOCalls : WrapperCall(call)
  \/ \E out \in PrimitiveOutcomes : PrimitiveSettles(out)
  \/ \E call \in NavigationCalls : WrapperNavigate(call)
  \/ WrapperNext

\* the wrappers are used without a proxy
InitWrapper == Init /\ ~rateLimiter /\ ~deferredStorage

SpecWrapper == InitWrapper /\ [][NextWrapper]_vars

-----------------------------------------------------------------------------
(* The singleton: RealtimeDB.getInstance *)

\* getInstance calls made in one behaviour
MaxGets == 3

\* the arguments of getInstance, each of them optional: an engine handle, a
\* rate limiter, a deferred store
GetArgs ==
  [firestoreInstance : {NoValue, "fs1", "fs2"},
   rateLimiter : BOOLEAN, deferredStorage : BOOLEAN]

\* new RealtimeDB(firestoreInstance, rateLimiter, deferredStorage); n tells
\* the objects constructed apart
ConstructedProxy(n, args) ==
  [n |-> n,
   firestore |-> IF args.firestoreInstance = NoValue THEN "admin.firestore()"
                 ELSE args.firestoreInstance,
   rateLimiter |-> args.rateLimiter,
   deferredStorage |-> args.deferredStorage]

\* `if (!RealtimeDB.instance) { RealtimeDB.instance = new RealtimeDB(...) }`
InstanceAfterAlwaysNew(current, n, args) == ConstructedProxy(n, args)
InstanceAfter(current, n, args) ==
  IF current = NoInstance THEN ConstructedProxy(n, args) ELSE current

\* getInstance(firestoreInstance?, rateLimiter?, deferredStorage?); the
\* rate limiter and the store of the proxy are those of the instance
GetInstance(args) ==
  LET after == InstanceAfter(instance, Len(getCalls) + 1, args)
  IN /\ Len(getCalls) < MaxGets
     /\ instance' = after
     /\ rateLimiter' = after.rateLimiter
     /\ deferredStorage' = after.deferredStorage
     /\ getCalls' = Append(getCalls, [args |-> args, returned |-> after])
     /\ UNCHANGED <<currentCustomerId, errorHandlers, dlqHandler, store, now,
                    lastSetter, nextRnd, issued, calls, batch, txVars, txUnit,
                    wrapper, wallet>>

\* no proxy exists before the first call
InitInstance == Init /\ ~rateLimiter /\ ~deferredStorage

NextInstance == \E args \in GetArgs : GetInstance(args)

SpecInstance == InitInstance /\ [][NextInstance]_vars

-----------------------------------------------------------------------------
(* The vault wallet: FirestoreDB.updateVaultWalletBalance

   wallet.sub is the document tenants/T/vaultAccounts/A/wallets/ASSET (<<>>
   while it does not exist), wallet.account the wallets.ASSET field of the
   account document, which exists.  The engine is taken at its contract:
   create fails on an existing document, update on a missing one, and update
   changes only the fields it is given. *)

\* the `update` object built from a balance: `staked` only when reported
SubUpdate(balance) == balance

\* `if (assetWallet.exists) update({...update}) else create(update)`
SubWrite(exists) == IF exists THEN "update" ELSE "create"

\* does the engine accept the write on the document as it is now
EngineAccepts(write, doc) ==
  IF write = "create" THEN doc = <<>> ELSE doc # <<>>

\* update changes the fields it is given and keeps the others
MergeFields(doc, update) ==
  IF doc = <<>> THEN <<update>>
  ELSE <<[total |-> update.total,
          staked |-> IF update.staked # NoValue THEN update.staked
                     ELSE doc[1].staked]>>

\* the document after an accepted write
DocAfter(write, doc, update) ==
  IF write = "create" THEN <<update>> ELSE MergeFields(doc, update)

\* updateVaultWalletBalance is called: updateVaultWalletBalanceDoc sends its
\* update of the account document
WalletStart(c) ==
  /\ wallet.calls[c].pc = "idle"
  /\ wallet' = [wallet EXCEPT !.calls[c].pc = "doc"]
  /\ UNCHANGED <<proxyVars, txVars, txUnit, wrapper, instance, getCalls>>

\* the account document is updated; updateVaultWalletBalanceSubCollection
\* sends `assetWalletRef.get()`
WalletDocUpdated(c) ==
  /\ wallet.calls[c].pc = "doc"
  /\ wallet' = [wallet EXCEPT !.account = MergeFields(wallet.account,
                                                      SubUpdate(BalanceOf[c])),
                              !.calls[c].pc = "get"]
  /\ UNCHANGED <<proxyVars, txVars, txUnit, wrapper, instance, getCalls>>

\* the snapshot arrives; the write it selects is sent
WalletGet(c) ==
  /\ wallet.calls[c].pc = "get"
  /\ wallet' = [wallet EXCEPT
       !.calls[c].pc = "write",
       !.calls[c].exists = IF wallet.sub # <<>> THEN "true" ELSE "false",
       !.calls[c].write = SubWrite(wallet.sub # <<>>)]
  /\ UNCHANGED <<proxyVars, txVars, txUnit, wrapper, instance, getCalls>>

\* the engine performs the write
WalletWriteOk(c) ==
  /\ wallet.calls[c].pc = "write"
  /\ EngineAccepts(wallet.calls[c].write, wallet.sub)
  /\ wallet' = [wallet EXCEPT
       !.sub = DocAfter(wallet.calls[c].write, wallet.sub, SubUpdate(BalanceOf[c])),
       !.calls[c].pc = "done"]
  /\ UNCHANGED <<proxyVars, txVars, txUnit, wrapper, instance, getCalls>>

\* the engine rejects the write; nothing catches it and the call rejects
WalletWriteFail(c) ==
  /\ wallet.calls[c].pc = "write"
  /\ ~EngineAccepts(wallet.calls[c].write, wallet.sub)
  /\ wallet' = [wallet EXCEPT
       !.calls[c].pc = "failed",
       !.calls[c].raised = IF wallet.calls[c].write = "create"
                             THEN "ALREADY_EXISTS" ELSE "NOT_FOUND"]
  /\ UNCHANGED <<proxyVars, txVars, txUnit, wrapper, instance, getCalls>>

\* the wallet document may or may not exist before the calls
InitWallet ==
  /\ currentCustomerId = "default"
  /\ rateLimiter = FALSE
  /\ deferredStorage = FALSE
  /\ errorHandlers = <<>>
  /\ dlqHandler = NoSink
  /\ store = <<>>
  /\ now = 0
  /\ lastSetter = 0
  /\ nextRnd = 1
  /\ issued = 0
  /\ calls = [c \in Callers |-> IdleCall]
  /\ batch = NoBatch
  /\ driver = NoValue
  /\ docStatus = SeedStatus
  /\ txs = [i \in Txs |-> IdleTx]
  /\ txUnit = IdleUnit
  /\ wrapper = IdleWrapper
  /\ instance = NoInstance
  /\ getCalls = <<>>
  /\ \E before \in {<<>>, <<[total |-> 0, staked |-> NoValue]>>} :
        wallet = [sub |-> before, account |-> before,
                  calls |-> [c \in WalletCallers |-> IdleWalletCall]]

NextWallet ==
  \/ \E c \in WalletCallers : WalletStart(c)
  \/ \E c \in WalletCallers : WalletDocUpdated(c)
  \/ \E c \in WalletCallers : WalletGet(c)
  \/ \E c \in WalletCallers : WalletWriteOk(c)
  \/ \E c \in WalletCallers : WalletWriteFail(c)

SpecWallet == InitWallet /\ [][NextWallet]_vars

-----------------------------------------------------------------------------
(* Properties of the write calls *)

Settled(c) == calls[c].pc = "done"
Active(c) == calls[c].pc \notin {"idle", "ready"}

\* how often a record with the identifier of rec is in the store
TimesStored(rec) == Cardinality({i \in DOMAIN store : store[i].id = rec.id})

\* the call was answered 'rate limited' with a store configured
Deferring(c) == calls[c].shouldLimit = "true" /\ deferredStorage

\* C1 as stated: every call answered 'rate limited' (store configured)
\* appends exactly one record to the store and makes no engine call.
C1_AsStated ==
  \A c \in Callers :
    (Settled(c) /\ Deferring(c)) =>
       /\ Len(calls[c].storeCalls) = 1
       /\ TimesStored(calls[c].storeCalls[1]) = 1
       /\ calls[c].engineCalls = <<>>

\* C1 amended: every call answered 'rate limited' (store configured) makes
\* exactly one append call to the store and no engine call; the store then
\* holds exactly one record of the call, or none when the append was rejected,
\* in which case the call raises the store's error.
C1_DeferredOnce ==
  \A c \in Callers :
    Deferring(c) =>
       /\ Len(calls[c].storeCalls) = 1
       /\ calls[c].engineCalls = <<>>
       /\ Settled(c) =>
            TimesStored(calls[c].storeCalls[1]) =
               (IF calls[c].raised = StoreError THEN 0 ELSE 1)
       /\ ~Settled(c) => TimesStored(calls[c].storeCalls[1]) = 0

C1_Witness ==
  \E c \in Callers :
    /\ Settled(c) /\ Deferring(c)
    /\ calls[c].customerId = "acme"
    /\ calls[c].outcome = "returned"
    /\ TimesStored(calls[c].storeCalls[1]) = 1
    /\ Len(store) = 2

\* C2: an admitted call whose engine write succeeds returns exactly the
\* value the engine returned, and makes no append to the store.
C2_NativeReturn ==
  \A c \in Callers :
    (Settled(c) /\ calls[c].shouldLimit = "false" /\ calls[c].error = NoValue) =>
       /\ calls[c].outcome = "returned"
       /\ calls[c].engineResult.origin = "engine"
       /\ calls[c].result = calls[c].engineResult
       /\ calls[c].storeCalls = <<>>
       /\ Len(calls[c].engineCalls) = 1

C2_Witness ==
  \E c \in Callers :
    /\ Settled(c) /\ calls[c].shouldLimit = "false"
    /\ calls[c].op = "add" /\ calls[c].gateAsked # <<>>
    /\ calls[c].result.origin = "engine"
    /\ calls[c].result.type = "DocumentReference"

\* C3 as stated: after a delegate failure the caller is raised the engine's
\* original error, whatever the recovery chain and the sink did.
C3_OriginalErrorRaised ==
  \A c \in Callers :
    (Settled(c) /\ calls[c].error # NoValue) =>
       /\ calls[c].outcome = "raised"
       /\ calls[c].raised = calls[c].error

\* C4: on a delegate failure the predicates are invoked in registration
\* order, up to and including the first that returns 'recoverable'; no later
\* predicate and no sink is invoked after it, and with no 'recoverable'
\* verdict every predicate registered when the engine failed is invoked.
C4_ChainPrefix ==
  \A c \in Callers :
    LET call == calls[c]
        n == Len(call.invoked)
    IN call.error # NoValue =>
         /\ n <= Len(errorHandlers)
         /\ call.invoked = SubSeq(errorHandlers, 1, n)
         /\ call.recoverableAt # 0 =>
              /\ call.recoverableAt = n
              /\ call.recoverable
              /\ call.dlqCalls = <<>>
              /\ call.pc = "done"
         /\ (call.pc \in {"dlq", "done"} /\ call.recoverableAt = 0) =>
              n >= call.handlersAtFail

C4_Witness ==
  \E c \in Callers :
    /\ Settled(c) /\ calls[c].error # NoValue
    /\ Len(errorHandlers) = 3
    /\ calls[c].handlersAtFail = 3
    /\ calls[c].recoverableAt = 2
    /\ calls[c].invoked = <<1, 2>>
    /\ dlqHandler # NoSink
    /\ calls[c].dlqCalls = <<>>

\* the record describes the call c made
Describes(rec, c) ==
  /\ rec.operation = calls[c].op
  /\ rec.path = calls[c].path
  /\ rec.data = calls[c].data
  /\ rec.options = calls[c].options
  /\ rec.customerId = calls[c].issuedTenant

\* C5: when a direct write fails, no predicate returns 'recoverable' and a
\* sink is registered, the sink is invoked exactly once for the call, with
\* the engine's error and a record describing exactly that call.
C5_DeadLetterOnce ==
  \A c \in Callers :
    LET call == calls[c]
    IN (Settled(c) /\ call.error # NoValue /\ ~call.recoverable
          /\ call.dlqAtFail # NoSink) =>
         /\ Len(call.dlqCalls) = 1
         /\ call.dlqCalls[1].error = EngineError
         /\ call.dlqCalls[1].sink # NoSink
         /\ Describes(call.dlqCalls[1].operation, c)

C5_Witness ==
  \E c \in Callers :
    /\ Settled(c) /\ calls[c].error # NoValue
    /\ calls[c].op = "set" /\ calls[c].options = Merge
    /\ calls[c].invoked = <<>>
    /\ Len(calls[c].dlqCalls) = 1
    /\ calls[c].dlqCalls[1].operation.options = Merge


\* C16: a predicate that throws while a delegate failure is triaged gives no
\* 'recoverable' verdict; the predicate registered after it is invoked next,
\* and when no predicate returns 'recoverable' the chain ends with the
\* dead-letter sink invoked once, if one was registered.
C16_ThrowingPredicateContinues ==
  \A c \in Callers :
    LET call == calls[c]
        n == Len(call.invoked)
    IN call.thrown # <<>> =>
         /\ \A j \in DOMAIN call.thrown :
               LET k == call.thrown[j]
               IN /\ call.recoverableAt # k
                  /\ k < call.handlersAtFail => n > k
                  /\ k = n => call.pc \in {"dlq", "done"}
         /\ call.recoverableAt = 0 =>
               /\ ~call.recoverable
               /\ (call.pc \in {"dlq", "done"} /\ call.dlqAtFail # NoSink) =>
                     /\ Len(call.dlqCalls) = 1
                     /\ call.dlqCalls[1].error = EngineError
         /\ call.recoverableAt # 0 =>
               /\ call.recoverableAt \notin {call.thrown[j] : j \in DOMAIN call.thrown}
               /\ call.dlqCalls = <<>>

\* the first predicate throws, the second returns false, the sink is invoked
C16_Witness ==
  \E c \in Callers :
    /\ Settled(c)
    /\ calls[c].thrown = <<1>>
    /\ calls[c].invoked = <<1, 2>>
    /\ calls[c].handlersAtFail = 2
    /\ calls[c].recoverableAt = 0
    /\ Len(calls[c].dlqCalls) = 1
    /\ calls[c].raised = EngineError

\* C17: no call asks the engine more than once, whatever the recovery chain
\* returns: a call whose engine write failed stays at one engine call and is
\* raised to the caller, a 'recoverable' verdict only keeping the dead-letter
\* sink from being invoked.
C17_NoRetry ==
  \A c \in Callers :
    LET call == calls[c]
    IN Active(c) =>
         /\ Len(call.engineCalls) <= 1
         /\ call.error # NoValue =>
               /\ Len(call.engineCalls) = 1
               /\ call.pc \in {"handler", "dlq", "done"}
               /\ call.outcome # "returned"
               /\ call.recoverable =>
                     /\ call.dlqCalls = <<>>
                     /\ call.pc = "done"
                     /\ call.raised = call.error

\* the only registered predicate returned 'recoverable' with a sink registered
C17_Witness ==
  \E c \in Callers :
    /\ Settled(c) /\ calls[c].error # NoValue
    /\ calls[c].recoverable /\ calls[c].recoverableAt = 1
    /\ calls[c].dlqAtFail # NoSink
    /\ Len(calls[c].engineCalls) = 1
    /\ calls[c].op = "add"
    /\ calls[c].raised = EngineError

\* C18: the proxy holds at most one dead-letter sink, and whenever a call's
\* chain invokes a sink it invokes exactly one, the sink registered last
\* before the invocation; no sink registered earlier is invoked.
C18_LastSinkWins ==
  /\ [](dlqHandler \in Sinks \cup {NoSink})
  /\ [][\A c \in Callers :
          (calls'[c].dlqCalls # calls[c].dlqCalls /\ calls'[c].dlqCalls # <<>>) =>
             /\ dlqHandler # NoSink
             /\ calls'[c].dlqCalls = <<[sink |-> dlqHandler,
                                        error |-> calls'[c].error,
                                        operation |-> calls'[c].errOp[1]]>>]_vars

\* a second sink was registered while the predicates ran: the chain invokes it
C18_Witness ==
  \E c \in Callers :
    /\ Settled(c)
    /\ calls[c].dlqAtFail = 1
    /\ dlqHandler = 2
    /\ Len(calls[c].dlqCalls) = 1
    /\ calls[c].dlqCalls[1].sink = 2

\* the records a call has built so far: the deferred record, the error record
RecordsOf(c) ==
  {calls[c].storeCalls[i] : i \in DOMAIN calls[c].storeCalls}
  \cup {calls[c].errOp[i] : i \in DOMAIN calls[c].errOp}
  \cup {calls[c].dlqCalls[i].operation : i \in DOMAIN calls[c].dlqCalls}

\* C8: the tenant passed to the gate and the tenant written into the deferred
\* record or the error record are the tenant that was current when the call
\* was issued, whatever setCustomerId calls ran while the call was suspended.
C8_TenantAtCallTime ==
  \A c \in Callers :
    Active(c) =>
       /\ \A i \in DOMAIN calls[c].gateAsked :
             calls[c].gateAsked[i].tenant = calls[c].issuedTenant
       /\ \A rec \in RecordsOf(c) : rec.customerId = calls[c].issuedTenant
       /\ \A i \in DOMAIN store :
             store[i] \in RecordsOf(c) => store[i].customerId = calls[c].issuedTenant

\* a setCustomerId ran while the call was suspended, before its record was built
C8_Witness ==
  \E c \in Callers :
    /\ Settled(c)
    /\ calls[c].issuedTenant # currentCustomerId
    /\ calls[c].gateAsked # <<>>
    /\ \E i \in DOMAIN store :
         /\ store[i] \in RecordsOf(c)
         /\ store[i].customerId = calls[c].issuedTenant
    /\ \E d \in Callers :
         /\ d # c /\ Settled(d) /\ calls[d].errOp # <<>>
         /\ calls[d].issuedTenant = currentCustomerId

\* C9: the tenant a write is admission-checked and recorded under is the
\* tenant of the caller whose setCustomerId ran last before the write was
\* issued, which need not be the caller issuing the write.
C9_SharedTenantContext ==
  \A c \in Callers :
    Active(c) =>
       /\ calls[c].setterAtIssue \in Callers
       /\ calls[c].customerId = Own[calls[c].setterAtIssue]
       /\ \A i \in DOMAIN calls[c].gateAsked :
             calls[c].gateAsked[i].tenant = Own[calls[c].setterAtIssue]
       /\ \A rec \in RecordsOf(c) :
             rec.customerId = Own[calls[c].setterAtIssue]

\* a caller that set its own tenant and then wrote is checked and recorded
\* under the other caller's tenant
C9_Witness ==
  \E c \in Callers :
    /\ Settled(c)
    /\ calls[c].setterAtIssue # c
    /\ calls[c].gateAsked # <<>>
    /\ calls[c].gateAsked[1].tenant # Own[c]
    /\ \E i \in DOMAIN store :
         /\ store[i] \in RecordsOf(c)
         /\ store[i].customerId # Own[c]

\* the value is the placeholder the method returns after deferring rec
IsPlaceholder(res, c, rec) ==
  /\ res.origin = "proxy"
  /\ IF calls[c].op = "add"
       THEN /\ res.type = "DocumentReference"
            /\ res.path = calls[c].path
            /\ res.docId = <<rec.id>>
       ELSE /\ res.type = "WriteResult"
            /\ rec.timestamp <= res.writeTime
            /\ res.writeTime <= now

\* C10 as stated: a call the admission gate rejects never raises; it returns a
\* placeholder after its record has been appended to the store.
C10_AsStated ==
  \A c \in Callers :
    (Settled(c) /\ calls[c].shouldLimit = "true") =>
       /\ calls[c].outcome = "returned"
       /\ calls[c].raised = NoValue

\* C10 amended: a call the admission gate rejects, with a store configured
\* whose append succeeds, does not raise: it returns a placeholder (for
\* set/update/delete a write result stamped with the time of the return) and
\* its record is in the store by then.  With no store configured it raises
\* the configuration error, and a rejected append is raised to the caller.
C10_DeferredReturns ==
  \A c \in Callers :
    LET call == calls[c]
    IN (Settled(c) /\ call.shouldLimit = "true") =>
         IF ~deferredStorage
           THEN /\ call.outcome = "raised" /\ call.raised = ConfigError
                /\ call.storeCalls = <<>>
           ELSE \/ /\ call.outcome = "raised" /\ call.raised = StoreError
                   /\ TimesStored(call.storeCalls[1]) = 0
                \/ /\ call.outcome = "returned" /\ call.raised = NoValue
                   /\ IsPlaceholder(call.result, c, call.storeCalls[1])
                   /\ TimesStored(call.storeCalls[1]) = 1

C10_Witness ==
  \E c \in Callers :
    /\ Settled(c) /\ calls[c].shouldLimit = "true"
    /\ calls[c].op = "delete"
    /\ calls[c].outcome = "returned"
    /\ calls[c].result.writeTime = 1
    /\ calls[c].storeCalls[1].timestamp = 0
    /\ TimesStored(calls[c].storeCalls[1]) = 1


\* C11: a call the admission gate rejects while no deferred store is
\* configured raises the configuration error at once (it is settled as soon as
\* the gate has answered); no engine call is made, no append is asked of the
\* store, nothing is stored, and neither a recovery predicate nor the
\* dead-letter sink is invoked.
C11_NoStoreConfigured ==
  \A c \in Callers :
    (calls[c].shouldLimit = "true" /\ ~deferredStorage) =>
       /\ Settled(c)
       /\ calls[c].outcome = "raised"
       /\ calls[c].raised = ConfigError
       /\ calls[c].engineCalls = <<>>
       /\ calls[c].storeCalls = <<>>
       /\ store = <<>>
       /\ calls[c].errOp = <<>>
       /\ calls[c].invoked = <<>>
       /\ calls[c].dlqCalls = <<>>

\* a predicate and a sink were registered before the rejected call was issued
C11_Witness ==
  \E c \in Callers :
    /\ Settled(c) /\ calls[c].shouldLimit = "true" /\ ~deferredStorage
    /\ calls[c].op = "set"
    /\ calls[c].raised = ConfigError
    /\ Len(errorHandlers) >= 1
    /\ dlqHandler # NoSink
    /\ issued = 2

\* what the caller asked for: the method called and its arguments
Intent(c) ==
  [op |-> calls[c].op, path |-> calls[c].path, data |-> calls[c].data,
   options |-> calls[c].options]

\* the operation read back from a record
Decode(rec) ==
  [op |-> rec.operation, path |-> rec.path, data |-> rec.data,
   options |-> rec.options]

\* C12: the deferred record built for a rejected call, and the copy of it in
\* the store, decode to the operation kind, path, payload and options of the
\* call that was made, and carry the tenant the call was issued under.
C12_RecordRoundTrip ==
  \A c \in Callers :
    calls[c].shouldLimit = "true" =>
       /\ \A i \in DOMAIN calls[c].storeCalls :
             /\ Decode(calls[c].storeCalls[i]) = Intent(c)
             /\ calls[c].storeCalls[i].customerId = calls[c].issuedTenant
       /\ \A i \in DOMAIN store :
             (\E j \in DOMAIN calls[c].storeCalls :
                 store[i].id = calls[c].storeCalls[j].id) =>
               /\ Decode(store[i]) = Intent(c)
               /\ store[i].customerId = calls[c].issuedTenant

\* update("users/1", d2) issued under acme is rejected and stored, after a
\* set with options was stored
C12_Witness ==
  \E c \in Callers :
    /\ Settled(c) /\ calls[c].shouldLimit = "true"
    /\ calls[c].outcome = "returned"
    /\ Intent(c) = [op |-> "update", path |-> DocPath, data |-> "d2",
                    options |-> NoValue]
    /\ calls[c].issuedTenant = "acme"
    /\ Len(store) = 2
    /\ store[1].operation = "set" /\ store[1].options = Merge
    /\ store[2].operation = "update" /\ store[2].path = DocPath
    /\ store[2].data = "d2" /\ store[2].customerId = "acme"

\* C14: a get or query never asks the admission gate and never appends to the
\* store, whatever the gate answers to writes meanwhile: it makes exactly one
\* engine read of the path it was given and returns what the engine returned.
C14_ReadsBypassGate ==
  /\ \A i \in DOMAIN store : store[i].operation \notin ReadKinds
  /\ \A c \in Callers :
       calls[c].op \in ReadKinds =>
          /\ calls[c].gateAsked = <<>>
          /\ calls[c].shouldLimit = NoValue
          /\ calls[c].storeCalls = <<>>
          /\ Len(calls[c].engineCalls) = 1
          /\ calls[c].engineCalls[1].method = calls[c].op
          /\ calls[c].engineCalls[1].path = calls[c].path
          /\ calls[c].outcome = "returned" =>
                /\ calls[c].result.origin = "engine"
                /\ calls[c].result = calls[c].engineResult

\* a read returns the engine's result while a write issued under the same
\* tenant is rejected by the gate and deferred
C14_Witness ==
  \E c, d \in Callers :
    /\ c # d /\ rateLimiter
    /\ calls[c].op = "get" /\ Settled(c) /\ calls[c].outcome = "returned"
    /\ calls[c].result.type = "DocumentSnapshot"
    /\ calls[d].shouldLimit = "true" /\ Settled(d)
    /\ calls[d].issuedTenant = calls[c].issuedTenant
    /\ Len(store) = 1

\* C19: a rejected add returns only after its record is in the store, and
\* the reference it returns lies under the collection path it was given, with
\* a document id made of the identifier of exactly that record, which no other
\* record in the store has.
C19_AddPlaceholder ==
  \A c \in Callers :
    LET call == calls[c]
    IN (call.op = "add" /\ call.shouldLimit = "true" /\ deferredStorage) =>
         /\ call.pc = "store" =>
               /\ call.outcome = "pending"
               /\ call.result = NoResult
         /\ call.outcome = "returned" =>
               /\ call.result.origin = "proxy"
               /\ call.result.type = "DocumentReference"
               /\ call.result.path = call.path
               /\ call.result.docId = <<call.storeCalls[1].id>>
               /\ \E i \in DOMAIN store :
                     /\ store[i] = call.storeCalls[1]
                     /\ \A j \in DOMAIN store :
                           store[j].id = call.storeCalls[1].id => j = i

\* two adds were deferred: the second's reference names the second record
C19_Witness ==
  \E c \in Callers :
    /\ Settled(c) /\ calls[c].op = "add" /\ calls[c].shouldLimit = "true"
    /\ calls[c].outcome = "returned"
    /\ Len(store) = 2
    /\ store[1].operation = "add"
    /\ store[1].timestamp = store[2].timestamp
    /\ calls[c].result.docId = <<store[2].id>>
    /\ store[1].id # store[2].id

\* the engine delegate calls and the store append calls a call has made
Delegations(c) == Len(calls[c].engineCalls) + Len(calls[c].storeCalls)

\* C25 as stated: every settled write call has queried the gate exactly once
\* (a gate being configured), the answer came before any engine call or
\* store append, and the call made exactly one of the two.
C25_AsStated ==
  \A c \in Callers :
    Settled(c) =>
       /\ Len(calls[c].gateAsked) = (IF rateLimiter THEN 1 ELSE 0)
       /\ Delegations(c) = 1

\* C25 amended: a write call queries the gate exactly once (a gate being
\* configured); while the answer is pending, and when the query fails, the
\* call makes neither an engine call nor a store append; it never makes both;
\* admitted, it makes exactly one engine call; rejected with a store
\* configured, exactly one store append; rejected with no store, neither.
C25_GateThenAtMostOne ==
  \A c \in Callers :
    Active(c) =>
       /\ Len(calls[c].gateAsked) = (IF rateLimiter THEN 1 ELSE 0)
       /\ Delegations(c) <= 1
       /\ calls[c].shouldLimit = NoValue => Delegations(c) = 0
       /\ calls[c].pc = "gate" => calls[c].shouldLimit = NoValue
       /\ calls[c].shouldLimit = "false" =>
            Len(calls[c].engineCalls) = 1 /\ calls[c].storeCalls = <<>>
       /\ (calls[c].shouldLimit = "true" /\ deferredStorage) =>
            Len(calls[c].storeCalls) = 1 /\ calls[c].engineCalls = <<>>
       /\ (calls[c].shouldLimit = "true" /\ ~deferredStorage) =>
            Delegations(c) = 0

\* after a deferred write, a second write of the same caller was admitted and
\* the engine rejected it
C25_Witness ==
  \E c \in Callers :
    /\ Settled(c) /\ rateLimiter /\ deferredStorage
    /\ Len(store) = 1
    /\ calls[c].op = "update"
    /\ calls[c].shouldLimit = "false"
    /\ Len(calls[c].gateAsked) = 1
    /\ Len(calls[c].engineCalls) = 1
    /\ calls[c].error = EngineError

\* C26: on a proxy with no rate limiter no call queries a gate, every call
\* whose admission check has returned is admitted and makes its one engine
\* call, no append is asked of the deferred store and the store stays empty,
\* a store being configured or not.
C26_NoLimiterAdmitsAll ==
  ~rateLimiter =>
     /\ store = <<>>
     /\ \A c \in Callers :
           /\ calls[c].gateAsked = <<>>
           /\ calls[c].storeCalls = <<>>
           /\ calls[c].shouldLimit # "true"
           /\ (Active(c) /\ calls[c].pc # "gate") =>
                /\ calls[c].shouldLimit = "false"
                /\ Len(calls[c].engineCalls) = 1
                /\ calls[c].engineCalls[1].method = calls[c].op
                /\ calls[c].raised \notin {ConfigError, GateError, StoreError}

\* with a store configured and no rate limiter, both callers have written
\* through the engine
C26_Witness ==
  /\ ~rateLimiter /\ deferredStorage
  /\ issued = 2
  /\ \A c \in Callers :
        /\ Settled(c)
        /\ calls[c].outcome = "returned"
        /\ calls[c].result.origin = "engine"

\* the recovery chain was entered for the call: an error record was built, a
\* predicate or the sink was invoked, or the call waits for one of them
ChainConsulted(c) ==
  \/ calls[c].errOp # <<>>
  \/ calls[c].invoked # <<>>
  \/ calls[c].dlqCalls # <<>>
  \/ calls[c].pc \in {"handler", "dlq"}

\* C27: the recovery chain is consulted only for a call that was admitted
\* and whose one engine call failed; a call whose engine call succeeded, a
\* deferred call and a call whose store append failed invoke no predicate and
\* no sink; a call whose store append failed raises the store's error.
C27_ChainOnlyForEngineFailures ==
  \A c \in Callers :
    /\ ChainConsulted(c) =>
          /\ calls[c].shouldLimit = "false"
          /\ calls[c].error = EngineError
          /\ Len(calls[c].engineCalls) = 1
          /\ calls[c].storeCalls = <<>>
    /\ (Settled(c) /\ calls[c].shouldLimit = "false" /\ calls[c].error = NoValue) =>
          ~ChainConsulted(c)
    /\ calls[c].shouldLimit = "true" => ~ChainConsulted(c)
    /\ (Settled(c) /\ Len(calls[c].storeCalls) = 1
          /\ TimesStored(calls[c].storeCalls[1]) = 0) =>
          /\ calls[c].outcome = "raised"
          /\ calls[c].raised = StoreError
          /\ calls[c].result = NoResult
          /\ ~ChainConsulted(c)

\* the store rejected an append while two predicates and a sink were registered
C27_Witness ==
  \E c \in Callers :
    /\ Settled(c)
    /\ Len(errorHandlers) = 2
    /\ dlqHandler # NoSink
    /\ Len(calls[c].storeCalls) = 1
    /\ calls[c].raised = StoreError
    /\ store = <<>>

-----------------------------------------------------------------------------
(* Properties of the batch *)

\* the record is the individual deferred record of one intent
RecordOfIntent(rec, op) ==
  /\ rec.id.prefix = "batch-op"
  /\ rec.operation = op.type
  /\ rec.path = op.docPath
  /\ rec.data = op.data
  /\ rec.options = op.options

\* C6 as stated: a batch of N intents rejected on commit leaves exactly N
\* individual deferred records in the store and commits nothing.
C6_AsStated ==
  (batch.pc = "done" /\ batch.shouldLimit = "true") =>
     /\ Len(store) = Len(batch.operations)
     /\ batch.committed = <<>>

\* C6 amended: a batch of N intents rejected on commit commits nothing and
\* is drained into individual records, the i-th record carrying the kind,
\* path, payload and options of the i-th intent; exactly N records when every
\* append succeeds, and the records of the intents before the failing one
\* when an append is rejected (the failure is then raised).
C6_OneRecordPerIntent ==
  batch.shouldLimit = "true" =>
     /\ batch.committed = <<>>
     /\ Len(store) <= Len(batch.operations)
     /\ \A i \in DOMAIN store : RecordOfIntent(store[i], batch.operations[i])
     /\ \A i, j \in DOMAIN store : store[i].id = store[j].id => i = j
     /\ (batch.pc = "done" /\ batch.outcome = "returned") =>
           Len(store) = Len(batch.operations)
     /\ (batch.pc = "done" /\ batch.outcome = "raised") =>
           /\ batch.raised = StoreError
           /\ Len(store) = batch.k - 1

C6_Witness ==
  /\ batch.pc = "done" /\ batch.shouldLimit = "true"
  /\ batch.outcome = "returned"
  /\ Len(batch.operations) = 3
  /\ Len(store) = 3
  /\ store[1].operation # store[2].operation

\* C15: batch() returns the engine's native batch exactly when the rate
\* limiter or the deferred store is unset, and a Batch Unit carrying the
\* current tenant when both are set; a native batch is committed without any
\* query to the gate and without any append to the store.
C15_NativeBatchUnlessBoth ==
  batch.pc # "none" =>
     /\ batch.native <=> (~rateLimiter \/ ~deferredStorage)
     /\ batch.native =>
          /\ batch.customerId = NoValue
          /\ batch.gateAsked = <<>>
          /\ batch.shouldLimit = NoValue
          /\ batch.storeCalls = <<>>
          /\ store = <<>>
          /\ batch.pc \in {"commit", "done"} => batch.committed = batch.operations
     /\ ~batch.native => batch.customerId \in Tenants \cup {"default"}

\* a rate limiter without a store: the batch is native and commits its intents
C15_Witness ==
  /\ rateLimiter /\ ~deferredStorage
  /\ batch.pc = "done" /\ batch.native
  /\ batch.outcome = "returned"
  /\ Len(batch.committed) = 2
  /\ batch.gateAsked = <<>>

\* the record was built by add / set / update / delete, not by the batch fallback
SingleOperation(rec) == rec.id.prefix \in Ops

\* C20: every record in the store of kind delete carries no payload, whether
\* built by delete() or by the batch fallback, and every record built by a
\* single add / set / update call carries a payload, the one of its call.
C20_PayloadInvariant ==
  /\ \A i \in DOMAIN store :
        /\ store[i].operation = "delete" => store[i].data = NoValue
        /\ (SingleOperation(store[i]) /\ store[i].operation # "delete") =>
              /\ store[i].operation \in {"add", "set", "update"}
              /\ store[i].data # NoValue
  /\ \A c \in Callers, i \in DOMAIN store :
        (calls[c].storeCalls # <<>> /\ store[i].id = calls[c].storeCalls[1].id) =>
           /\ SingleOperation(store[i])
           /\ store[i].operation = calls[c].op
           /\ store[i].data = calls[c].data

\* the store holds a delete record and a set record of the batch fallback and
\* the record of the update that has just been deferred
C20_Witness ==
  /\ \E i \in DOMAIN store :
        /\ ~SingleOperation(store[i]) /\ store[i].operation = "delete"
        /\ store[i].data = NoValue
  /\ \E i \in DOMAIN store :
        /\ ~SingleOperation(store[i]) /\ store[i].operation = "set"
        /\ store[i].data = "d1"
  /\ \E c \in Callers, i \in DOMAIN store :
        /\ Settled(c) /\ calls[c].op = "update" /\ calls[c].storeCalls # <<>>
        /\ store[i] = calls[c].storeCalls[1]
        /\ store[i].data = "d2"

\* C23 as stated: the tenant the gate is asked about when a Batch Unit
\* commits is the tenant stamped on the records its rejection produces,
\* whatever setCustomerId calls ran between batch() and commit().
C23_BatchTenantAgrees ==
  \A i \in DOMAIN batch.storeCalls, j \in DOMAIN batch.gateAsked :
     batch.storeCalls[i].customerId = batch.gateAsked[j].tenant

\* C24: every query an add / set / update / delete call makes to the gate
\* has cost 1, and the query of a batch commit, of which there is at most one,
\* has the number of intents the batch has accumulated as its cost.
C24_GateCost ==
  /\ \A c \in Callers :
        \A i \in DOMAIN calls[c].gateAsked : calls[c].gateAsked[i].points = 1
  /\ Len(batch.gateAsked) <= 1
  /\ \A j \in DOMAIN batch.gateAsked :
        batch.gateAsked[j].points = Len(batch.operations)

\* a single write and the commit of a batch of three intents have asked the gate
C24_Witness ==
  /\ \E c \in Callers :
        /\ calls[c].op = "delete"
        /\ calls[c].gateAsked = <<[tenant |-> "acme", points |-> 1]>>
  /\ Len(batch.operations) = 3
  /\ batch.gateAsked = <<[tenant |-> "acme", points |-> 3]>>

\* one step of the program seen from the store while a batch is drained
DrainStep ==
  /\ store' # store =>
       /\ batch.pc = "drain"
       /\ store' = Append(store, batch.storeCalls[batch.k])
       /\ RecordOfIntent(store'[Len(store')], batch.operations[batch.k])
  /\ (batch.pc = "done" /\ batch.raised = StoreError) => store' = store
  /\ (batch.pc = "drain" /\ batch'.pc = "done" /\ batch'.outcome = "raised") =>
       /\ store' = store
       /\ batch'.raised = StoreError
       /\ batch'.k = batch.k

\* C28: while a rejected batch is drained, every change of the store appends
\* one record, the record of the intent the drain has reached, which is the
\* next one in accumulation order; an append failing at intent k ends the
\* drain with the records of intents 1..k-1 in the store, no later append,
\* and the store's error raised.
C28_DrainInOrder ==
  /\ [](batch.pc = "drain" => /\ Len(batch.storeCalls) = batch.k
                              /\ Len(store) = batch.k - 1)
  /\ []((batch.pc = "done" /\ batch.raised = StoreError) =>
           /\ batch.outcome = "raised"
           /\ Len(store) = batch.k - 1
           /\ batch.k <= Len(batch.operations)
           /\ \A i \in DOMAIN store : RecordOfIntent(store[i], batch.operations[i]))
  /\ [][DrainStep]_vars

\* the append of the second of three intents was rejected
C28_Witness ==
  /\ batch.pc = "done" /\ batch.shouldLimit = "true"
  /\ batch.raised = StoreError
  /\ Len(batch.operations) = 3
  /\ batch.k = 2
  /\ Len(store) = 1
  /\ batch.operations[1] # batch.operations[2]

-----------------------------------------------------------------------------
(* Properties of the transactions *)

TxSettled(i) == txs[i].pc \in {"done", "failed"}

\* C7 as stated: the committed status never decreases (it stays at or above
\* the value of every transaction that has committed), and once the ten
\* concurrent transactions of the scenario have completed it is 10.
C7_FinalStatus ==
  /\ \A i \in Txs : txs[i].pc = "done" => docStatus >= i
  /\ (\A i \in Txs : TxSettled(i)) => docStatus = NumTx

\* C13 as stated: the function given to RealtimeDB.runTransaction is invoked
\* with the Transactional Unit wrapping the engine's transaction, never with
\* the engine's raw transaction handle.
C13_UnitPassed ==
  \A i \in Txs :
    (driver = "RealtimeDB" /\ txs[i].pc # "idle") => txs[i].handle = "unit"

-----------------------------------------------------------------------------
(* Properties of the Transactional Unit *)

\* how often the unit has called the caller's function
UpdateFnRuns(u) ==
  Cardinality({i \in DOMAIN u.effects : u.effects[i].kind = "updateFn"})

\* C21: in every attempt the unit calls the caller's function exactly once,
\* before anything else; besides that it calls only the engine transaction
\* (no gate is queried), once per get / update / delete asked of it, the
\* same-named primitive with the unwrapped reference and the same payload;
\* it settles as the function settled, with the same value or error.
C21_UnitDelegates ==
  txUnit.pc # "idle" =>
     /\ UpdateFnRuns(txUnit) = 1
     /\ txUnit.effects[1].kind = "updateFn"
     /\ \A i \in DOMAIN txUnit.effects :
           txUnit.effects[i].kind \in {"updateFn", "transaction"}
     /\ Len(txUnit.effects) = 1 + Len(txUnit.asked)
     /\ \A i \in DOMAIN txUnit.asked :
           txUnit.effects[i + 1] =
              [kind |-> "transaction", method |-> txUnit.asked[i].method,
               ref |-> EngineRef(txUnit.asked[i].ref.path),
               data |-> txUnit.asked[i].data]
     /\ txUnit.pc = "running" => txUnit.outcome = "pending"
     /\ txUnit.pc = "settled" =>
           IF txUnit.fnOutcome.kind = "resolve"
             THEN /\ txUnit.outcome = "returned"
                  /\ txUnit.result = txUnit.fnOutcome.value
                  /\ txUnit.raised = NoValue
             ELSE /\ txUnit.outcome = "raised"
                  /\ txUnit.raised = txUnit.fnOutcome.value
                  /\ txUnit.result = NoValue

\* in the engine's second attempt the function read and updated a document
\* through the unit and then rejected
C21_Witness ==
  /\ txUnit.pc = "settled"
  /\ txUnit.attempt = 2
  /\ txUnit.outcome = "raised"
  /\ Len(txUnit.asked) = 2
  /\ txUnit.asked[1].method = "get"
  /\ txUnit.asked[2].method = "update"
  /\ txUnit.asked[1].ref = WrappedRef(UserPath)

-----------------------------------------------------------------------------
(* Properties of the wrappers *)

\* the primitive the wrapper in use was built over
WrappedPrimitive ==
  IF wrapper.kind = "document" THEN DocPrimitive(wrapper.path)
  ELSE CollPrimitive(wrapper.path)

InIOCall == wrapper.pc \in {"pending", "done"} /\ wrapper.method \notin {"doc", "collection"}
InNavigation == wrapper.pc = "done" /\ wrapper.method \in {"doc", "collection"}

\* the call made one console line and then one call of `method` with `args`
\* on `target`
LogThenCall(target, method, args) ==
  /\ Len(wrapper.effects) = 2
  /\ wrapper.effects[1].kind = "log"
  /\ wrapper.effects[1].line.path = wrapper.path
  /\ wrapper.effects[2] = CallEffect(target, method, args)

\* navigation made no console line and returned a wrapper over the reference
\* the primitive's navigation gives
NavigationWraps ==
  InNavigation =>
     /\ wrapper.effects = <<CallEffect(WrappedPrimitive, wrapper.method, wrapper.args)>>
     /\ wrapper.result[1].wrapped
     /\ wrapper.result[1].ref.path[1] = wrapper.path
     /\ wrapper.result[1].type =
           (IF wrapper.method = "doc" THEN "RealtimeDocumentReference"
            ELSE "RealtimeCollectionReference")
     /\ wrapper.result[1].ref.type =
           (IF wrapper.method = "doc" THEN "DocumentReference"
            ELSE "CollectionReference")

\* C22 as stated: every I/O method (query included) writes its trace line
\* and then makes exactly one call of the same-named method of the wrapped
\* primitive with the same arguments, and returns the primitive's result
\* unchanged; navigation returns a newly wrapped reference.
C22_AsStated ==
  /\ InIOCall =>
       /\ LogThenCall(WrappedPrimitive, wrapper.method, wrapper.args)
       /\ wrapper.pc = "done" => wrapper.result = wrapper.primitive
  /\ NavigationWraps

\* C22 amended: get, create, set, update, delete and add write their trace
\* line and then make exactly one call of the same-named method of the
\* wrapped primitive with the same arguments; query writes its trace line,
\* applies the caller's function to the wrapped collection and makes exactly
\* one get() call on the query the function returned; each returns the result of
\* the call it made unchanged; navigation returns a newly wrapped reference.
C22_LogThenDelegate ==
  /\ (InIOCall /\ wrapper.method # "query") =>
       LogThenCall(WrappedPrimitive, wrapper.method, wrapper.args)
  /\ (InIOCall /\ wrapper.method = "query") =>
       /\ Len(wrapper.effects) = 3
       /\ wrapper.effects[1].kind = "log"
       /\ wrapper.effects[1].line.path = wrapper.path
       /\ wrapper.effects[2] = [kind |-> "queryFn", fn |-> wrapper.args[1],
                                arg |-> WrappedPrimitive]
       /\ wrapper.effects[3] =
             CallEffect(QueryBuilt(wrapper.args[1], wrapper.path), "get", <<>>)
  /\ (InIOCall /\ wrapper.pc = "done") => wrapper.result = wrapper.primitive
  /\ NavigationWraps

\* after set(data, options) on a document, whose primitive rejected, a query
\* on the collection has resolved
C22_Witness ==
  /\ wrapper.pc = "done"
  /\ wrapper.method = "query"
  /\ wrapper.args = <<"where">>
  /\ wrapper.result = <<[kind |-> "resolve", value |-> "p2"]>>
  /\ Len(wrapper.console) = 2
  /\ wrapper.console[1].verb = "Setting document"
  /\ wrapper.console[2].verb = "Querying collection"

-----------------------------------------------------------------------------
(* Properties of the singleton *)

\* C29: only the first getInstance call constructs a proxy, from its own
\* arguments; every call returns that object, and the object's engine handle,
\* rate limiter and deferred store stay those of the first call whatever the
\* later calls pass.
C29_FirstCallOnly ==
  /\ [](getCalls = <<>> => instance = NoInstance)
  /\ [](getCalls # <<>> =>
          /\ instance = ConstructedProxy(1, getCalls[1].args)
          /\ rateLimiter = getCalls[1].args.rateLimiter
          /\ deferredStorage = getCalls[1].args.deferredStorage
          /\ \A i \in DOMAIN getCalls : getCalls[i].returned = instance)
  /\ [][instance # NoInstance => instance' = instance /\ UNCHANGED Config]_vars

\* three calls, each with another engine handle, the later ones with a rate
\* limiter and a store the first did not pass
C29_Witness ==
  /\ Len(getCalls) = 3
  /\ getCalls[1].args = [firestoreInstance |-> NoValue, rateLimiter |-> FALSE,
                         deferredStorage |-> FALSE]
  /\ getCalls[2].args = [firestoreInstance |-> "fs1", rateLimiter |-> TRUE,
                         deferredStorage |-> TRUE]
  /\ getCalls[3].args.firestoreInstance = "fs2"
  /\ getCalls[3].returned.firestore = "admin.firestore()"
  /\ ~rateLimiter

-----------------------------------------------------------------------------
(* Properties of the vault wallet *)

\* C30 as stated: whatever the interleaving of the calls on one wallet, no
\* call fails in its sub-document write, and once every call has completed
\* the sub-document holds the balance of one of the calls.
C30_NoCallFails ==
  /\ \A c \in WalletCallers : wallet.calls[c].pc # "failed"
  /\ (\A c \in WalletCallers : wallet.calls[c].pc = "done") =>
        \E c \in WalletCallers : wallet.sub = <<SubUpdate(BalanceOf[c])>>

====
